---- MODULE Spec2Model ----
(***************************************************************************)
(* Verification model of the decarbonization suite (src/app.py).           *)
(*                                                                         *)
(* The suite is a Streamlit application: every user interaction runs one   *)
(* pass of the page script, so every action below is one such pass (the    *)
(* button handler together with the re-rendering that follows it).         *)
(* Python floats are modelled by exact rationals [n, d]; the value         *)
(* [n |-> 0, d |-> 0] stands for a raised ZeroDivisionError.               *)
(***************************************************************************)
EXTENDS Integers, Sequences, FiniteSets, TLC

VARIABLES
    macc,              \* st.session_state.macc (MACC calculator form)
    macc_error,        \* an exception escaped the last MACC handler
    npv_in,            \* arguments handed to the NPV primitives
    npv_out,           \* what the NPV primitives returned
    cashflow_run,      \* an option handed to calculate_npv_detailed, and its outcome
    calc,              \* st.session_state.calc (fuel and energy calculator form)
    calculations,      \* table calculations of the fuel database
    materials_baseline,  \* table materials_baseline
    emission_reductions, \* table emission_reductions
    base_value_details,  \* table base_value_details
    fuel_seq,          \* last id handed out for table calculations (AUTOINCREMENT)
    fuel_save_result,  \* what the last call of save_calculation_to_db returned
    fuel_delete,       \* Record Management: the Delete / Confirm Delete buttons
    npv_projects,      \* table npv_projects of the MACC database
    npv_order,         \* ids of npv_projects by created_at, the most recent first
    delete_confirmation, \* st.session_state['delete_confirmation'] ("" when absent)
    delete_picked,     \* the entry of the project dropdown picked when Delete was pressed
    macc_chart,        \* bars of the MACC chart the strategy dashboard last drew
    dashboard_error,   \* an exception escaped the last strategy dashboard pass
    strategy,          \* strategy dashboard session: strategy_action, loaded_dashboard_id, selections
    strategy_portfolios, \* table strategy_portfolios
    co2_project,       \* st.session_state.co2_project after the last pass
    co2_projects,      \* table projects of the CO2 database
    co2_actuals,       \* values of the year-1 widgets of the actuals tracker
    co2_results,       \* emission results and year-1 tracking the last pass showed
    co2_later_years,   \* the tabs of the years after year 1: widgets and the year's results
    project_actuals,   \* table project_actuals, rows in rowid order
    amp_actuals_tracking  \* table amp_actuals_tracking, rows in rowid order

maccVars == <<macc, macc_error>>
npvVars == <<npv_in, npv_out, cashflow_run>>
fuelStoreVars == <<calculations, materials_baseline, emission_reductions,
                   base_value_details, fuel_seq, fuel_save_result>>
fuelVars == <<calc, calculations, materials_baseline, emission_reductions,
              base_value_details, fuel_seq, fuel_save_result, fuel_delete>>
npvStoreVars == <<npv_projects, npv_order>>
deleteVars == <<delete_confirmation, delete_picked>>
strategyVars == <<strategy, strategy_portfolios>>
portfolioVars == <<npv_projects, npv_order, delete_confirmation, delete_picked,
                   macc_chart, dashboard_error, strategy, strategy_portfolios>>
co2Vars == <<co2_project, co2_projects, co2_actuals, co2_results, co2_later_years>>
ledgerVars == <<project_actuals, amp_actuals_tracking>>
vars == <<macc, macc_error, npv_in, npv_out, cashflow_run, calc, calculations, materials_baseline,
          emission_reductions, base_value_details, fuel_seq, fuel_save_result,
          fuel_delete, npv_projects, npv_order, delete_confirmation, delete_picked,
          strategy, strategy_portfolios,
          macc_chart, dashboard_error, co2_project, co2_projects, co2_actuals, co2_results,
          co2_later_years,
          project_actuals, amp_actuals_tracking>>

(***************************************************************************)
(* Bounds of the model.                                                    *)
(***************************************************************************)
MaxLifetime == 2
MaxTracking == 2
MaxTrackedYear == 2
MaxSeriesLen == 5
MaxShortLen == 2
MaxCalcId == 3
MaxLedgerRows == 2

(***************************************************************************)
(* Exact rational arithmetic standing for Python float arithmetic.         *)
(***************************************************************************)
Abs(x) == IF x < 0 THEN -x ELSE x

RECURSIVE GCD(_, _)
GCD(a, b) == IF b = 0 THEN a ELSE GCD(b, a % b)

Raised == [n |-> 0, d |-> 0]

IsRaised(a) == a.d = 0

Rat(n, d) ==
    IF d = 0 THEN Raised
    ELSE LET g == GCD(Abs(n), Abs(d))
             s == IF d < 0 THEN -1 ELSE 1
         IN [n |-> (s * n) \div g, d |-> (s * d) \div g]

RInt(i) == [n |-> i, d |-> 1]

RZero == RInt(0)

ROne == RInt(1)

RAdd(a, b) ==
    IF IsRaised(a) \/ IsRaised(b) THEN Raised
    ELSE LET g == GCD(a.d, b.d)
         IN Rat(a.n * (b.d \div g) + b.n * (a.d \div g), a.d * (b.d \div g))

RNeg(a) == IF IsRaised(a) THEN Raised ELSE [n |-> -a.n, d |-> a.d]

RSub(a, b) == RAdd(a, RNeg(b))

RMul(a, b) ==
    IF IsRaised(a) \/ IsRaised(b) THEN Raised
    ELSE LET g1 == GCD(Abs(a.n), b.d)
             g2 == GCD(Abs(b.n), a.d)
         IN Rat((a.n \div g1) * (b.n \div g2), (a.d \div g2) * (b.d \div g1))

\* Python's float division: a zero divisor raises ZeroDivisionError.
RDiv(a, b) ==
    IF IsRaised(a) \/ IsRaised(b) \/ b.n = 0 THEN Raised
    ELSE RMul(a, Rat(b.d, b.n))

\* Python's ** with a non-negative integer exponent (x ** 0 = 1, also for 0).
RECURSIVE RPow(_, _)
RPow(a, k) == IF k = 0 THEN ROne ELSE RMul(a, RPow(a, k - 1))

RLess(a, b) == a.n * b.d < b.n * a.d

Pct(p) == Rat(p, 100)

RECURSIVE RSum(_)
RSum(s) == IF s = <<>> THEN RZero ELSE RAdd(Head(s), RSum(Tail(s)))

(***************************************************************************)
(* NPV primitives.                                                         *)
(***************************************************************************)
\* One discounted term cf / base ** t.  A zero cashflow over a non-zero
\* divisor is 0.0 whatever the divisor is.
DiscountTerm(cf, base, t) ==
    IF cf.n = 0 /\ ~IsRaised(cf) /\ base.n # 0 THEN RZero
    ELSE RDiv(cf, RPow(base, t))

\* calculate_npv(rate, cashflows): sum(cf / (1 + rate)**t for t, cf in enumerate(cashflows))
calculate_npv_drift(rate, cashflows) ==
    RSum([i \in 1..Len(cashflows) |-> DiscountTerm(cashflows[i], RAdd(ROne, rate), i)])

calculate_npv(rate, cashflows) ==
    RSum([i \in 1..Len(cashflows) |-> DiscountTerm(cashflows[i], RAdd(ROne, rate), i - 1)])

\* The discounting at the end of calculate_npv_detailed:
\* discount_rate = opt['discount_rate'] / 100; sum(cf / (1 + discount_rate)**t ...)
DiscountCashflows(discount_rate_pct, cashflows) ==
    LET discount_rate == RDiv(discount_rate_pct, RInt(100))
    IN RSum([i \in 1..Len(cashflows) |->
                DiscountTerm(cashflows[i], RAdd(ROne, discount_rate), i - 1)])

(***************************************************************************)
(* MACC calculator: scenario records and the Calculate MACC handler.       *)
(***************************************************************************)
OwnInvestment == "Own Investment"

Loan == "Loan"

\* The option dictionary of a fresh session (st.session_state.macc['option1']).
DefaultOption ==
    [capex_type |-> OwnInvestment, capex_own |-> 0, capex_loan_principal |-> 0,
     capex_loan_interest |-> 0, capex_loan_period |-> 0,
     reinvestment |-> FALSE, reinvestment_year |-> 0, reinvestment_amount |-> 0,
     opex_regular_costs |-> 0, opex_fuel_energy_cost |-> 0,
     inflation_rate |-> 0, fuel_energy_inflation |-> 0,
     salvage_value |-> 0, residual_value |-> 0, year_of_salvage |-> 0,
     annual_benefit |-> 0, benefit_duration |-> 0, benefit_decline_rate |-> 0,
     lifetime |-> 10, discount_rate |-> 8, co2_reduction |-> 0,
     emission_tracking_period |-> 10]

NoResult == [annual |-> <<>>]

\* The session dictionary built on first use and by "New Project".
NewMacc ==
    [project_id |-> "", organization |-> "", project_name |-> "",
     option1 |-> DefaultOption, option2 |-> DefaultOption,
     result |-> NoResult,
     calculated_npv1 |-> RZero, calculated_npv2 |-> RZero,
     calculated_mac |-> RZero, total_co2_diff |-> 0]

\* The year's cashflow with the benefit counted in every year of the lifetime.
YearCashflowBenefitEveryYear(opt, year) ==
    RSub(RSub(RMul(RInt(opt.annual_benefit),
                   RPow(RSub(ROne, Pct(opt.benefit_decline_rate)), year - 1)),
              RMul(RInt(opt.opex_regular_costs),
                   RPow(RAdd(ROne, Pct(opt.inflation_rate)), year - 1))),
         RMul(RInt(opt.opex_fuel_energy_cost),
              RPow(RAdd(ROne, Pct(opt.fuel_energy_inflation)), year - 1)))

\* Cashflow of year 1..lifetime: benefit with decline minus the two inflated opex streams.
YearCashflow(opt, year) ==
    LET annual_benefit ==
            IF year <= opt.benefit_duration
            THEN RMul(RInt(opt.annual_benefit),
                      RPow(RSub(ROne, Pct(opt.benefit_decline_rate)), year - 1))
            ELSE RZero
        opex_regular == RMul(RInt(opt.opex_regular_costs),
                             RPow(RAdd(ROne, Pct(opt.inflation_rate)), year - 1))
        opex_fuel == RMul(RInt(opt.opex_fuel_energy_cost),
                          RPow(RAdd(ROne, Pct(opt.fuel_energy_inflation)), year - 1))
    IN RSub(RSub(annual_benefit, opex_regular), opex_fuel)

\* The cashflow list with the owned capital as investment whatever the source.
DetailedCashflowsOfOwnCapital(opt) ==
    LET base == [i \in 1..(opt.lifetime + 1) |->
                    IF i = 1 THEN RInt(-opt.capex_own) ELSE YearCashflow(opt, i - 1)]
        salvaged == IF opt.salvage_value > 0 /\ opt.year_of_salvage <= opt.lifetime
                    THEN [base EXCEPT ![opt.year_of_salvage + 1] =
                              RAdd(@, RInt(opt.salvage_value))]
                    ELSE base
    IN [salvaged EXCEPT ![Len(salvaged)] = RAdd(@, RInt(opt.residual_value))]

\* The cashflow list with the salvage value added to the last entry.
DetailedCashflowsSalvageAtEnd(opt) ==
    LET investment == IF opt.capex_type = "Own Investment"
                      THEN opt.capex_own ELSE opt.capex_loan_principal
        base == [i \in 1..(opt.lifetime + 1) |->
                    IF i = 1 THEN RInt(-investment) ELSE YearCashflow(opt, i - 1)]
        salvaged == IF opt.salvage_value > 0 /\ opt.year_of_salvage <= opt.lifetime
                    THEN [base EXCEPT ![Len(base)] = RAdd(@, RInt(opt.salvage_value))]
                    ELSE base
    IN [salvaged EXCEPT ![Len(salvaged)] = RAdd(@, RInt(opt.residual_value))]

\* The cashflow list of calculate_npv_detailed; position t + 1 holds cashflows[t].
DetailedCashflows(opt) ==
    LET investment == IF opt.capex_type = OwnInvestment
                      THEN opt.capex_own ELSE opt.capex_loan_principal
        base == [i \in 1..(opt.lifetime + 1) |->
                    IF i = 1 THEN RInt(-investment) ELSE YearCashflow(opt, i - 1)]
        salvaged == IF opt.salvage_value > 0 /\ opt.year_of_salvage <= opt.lifetime
                    THEN [base EXCEPT ![opt.year_of_salvage + 1] =
                              RAdd(@, RInt(opt.salvage_value))]
                    ELSE base
    IN [salvaged EXCEPT ![Len(salvaged)] = RAdd(@, RInt(opt.residual_value))]

\* The NPV with entry t discounted over t + 1 years.
calculate_npv_detailed_late(opt) ==
    calculate_npv_drift(Pct(opt.discount_rate), DetailedCashflows(opt))

calculate_npv_detailed(opt) ==
    DiscountCashflows(RInt(opt.discount_rate), DetailedCashflows(opt))

Max3(a, b, c) ==
    LET m == IF a >= b THEN a ELSE b IN IF m >= c THEN m ELSE c

\* f"{x:,.0f}" of an integer-valued float, as a sequence of characters.
DigitChars == <<"0", "1", "2", "3", "4", "5", "6", "7", "8", "9">>

RECURSIVE DigitsOf(_)
DigitsOf(n) ==
    IF n < 10 THEN <<DigitChars[n + 1]>>
    ELSE DigitsOf(n \div 10) \o <<DigitChars[(n % 10) + 1]>>

RECURSIVE Grouped(_)
Grouped(ds) ==
    IF Len(ds) <= 3 THEN ds
    ELSE Grouped(SubSeq(ds, 1, Len(ds) - 3)) \o <<",">> \o SubSeq(ds, Len(ds) - 2, Len(ds))

FormatThousands(n) ==
    IF n < 0 THEN <<"-">> \o Grouped(DigitsOf(-n)) ELSE Grouped(DigitsOf(n))

\* net NPV of the MAC: NPV of the before scenario minus NPV of the after scenario.
DiffNpvReversed(npv1, npv2) == RSub(npv2, npv1)

DiffNpv(npv1, npv2) == RSub(npv1, npv2)

\* mac = diff_npv / diff_co2 if diff_co2 != 0 else 0
MacValue(diff_npv, diff_co2) ==
    IF diff_co2 # 0 THEN RDiv(diff_npv, RInt(diff_co2)) ELSE RZero

AnnualDiffCo2(o1, o2) == o1.co2_reduction - o2.co2_reduction

\* The tracking period of the first option alone.
TrackingPeriodOfFirst(o1, o2) == Max3(o1.emission_tracking_period, 1, 1)

TrackingPeriod(o1, o2) ==
    Max3(o1.emission_tracking_period, o2.emission_tracking_period, 1)

\* The values "Calculate MACC" derives from the two options of the session.
MaccOutcome(m) ==
    LET npv1 == calculate_npv_detailed(m.option1)
        npv2 == calculate_npv_detailed(m.option2)
        diff_npv == DiffNpv(npv1, npv2)
        annual_diff_co2 == AnnualDiffCo2(m.option1, m.option2)
        tracking_period == TrackingPeriod(m.option1, m.option2)
        diff_co2 == annual_diff_co2 * tracking_period
    IN [npv1 |-> npv1, npv2 |-> npv2, diff_npv |-> diff_npv,
        annual_diff_co2 |-> annual_diff_co2, tracking_period |-> tracking_period,
        diff_co2 |-> diff_co2, mac |-> MacValue(diff_npv, diff_co2)]

(***************************************************************************)
(* Values a user enters in the option form (option_fields_tab2).  The form *)
(* has no residual-value field, so residual_value keeps its default.       *)
(***************************************************************************)
MacScenario(capex, co2, tracking) ==
    [DefaultOption EXCEPT !.capex_own = capex, !.co2_reduction = co2,
                          !.lifetime = 1, !.discount_rate = 0,
                          !.emission_tracking_period = tracking]

ScenarioA == MacScenario(1000, 100, 1)

ScenarioB == MacScenario(500, 50, 1)

ScenarioZ == MacScenario(200, 150, 1)

BenefitScenario(lifetime) ==
    [DefaultOption EXCEPT !.capex_own = 1000, !.annual_benefit = 300,
                          !.benefit_duration = 1, !.benefit_decline_rate = 50,
                          !.opex_regular_costs = 100, !.inflation_rate = 100,
                          !.salvage_value = 200, !.year_of_salvage = 1,
                          !.lifetime = lifetime, !.discount_rate = 100,
                          !.co2_reduction = 100, !.emission_tracking_period = 1]

LoanScenario ==
    [DefaultOption EXCEPT !.capex_type = Loan, !.capex_own = 1000,
                          !.capex_loan_principal = 800, !.capex_loan_interest = 12,
                          !.capex_loan_period = 5, !.lifetime = 1, !.discount_rate = 0,
                          !.co2_reduction = 50, !.emission_tracking_period = 1]

\* A discount rate of -100 %: (1 + discount_rate) is 0.
ZeroBaseScenario ==
    [DefaultOption EXCEPT !.capex_own = 500, !.lifetime = 1, !.discount_rate = -100,
                          !.co2_reduction = 50, !.emission_tracking_period = 1]

ScenarioInputs ==
    {ScenarioA, ScenarioB, MacScenario(500, 100, MaxTracking)}
        \cup {BenefitScenario(l) : l \in 1..MaxLifetime}
        \cup {LoanScenario, ZeroBaseScenario}

(***************************************************************************)
(* Handlers of the MACC calculator page (npv_project_analysis_ui).         *)
(***************************************************************************)
\* "New Project": the session dictionary is replaced by a fresh one.
NewProject ==
    /\ macc' = NewMacc
    /\ macc_error' = FALSE

\* A pass in which the user changed fields of the two option forms.
EditOptions(pairs) ==
    \E pair \in pairs :
        /\ macc' = [macc EXCEPT !.option1 = pair[1], !.option2 = pair[2]]
        /\ macc_error' = FALSE

\* "Calculate MACC"; an exception of calculate_npv_detailed escapes the handler
\* before anything is stored.
CalculateMacc ==
    \E out \in {MaccOutcome(macc)} :
        IF IsRaised(out.npv1) \/ IsRaised(out.npv2) \/ IsRaised(out.mac)
        THEN /\ macc_error' = TRUE
             /\ UNCHANGED macc
        ELSE /\ macc' = [macc EXCEPT
                            !.result = [annual |-> FormatThousands(out.annual_diff_co2)],
                            !.calculated_npv1 = out.npv1,
                            !.calculated_npv2 = out.npv2,
                            !.calculated_mac = out.mac,
                            !.total_co2_diff = out.diff_co2]
             /\ macc_error' = FALSE

InitMacc ==
    /\ macc = NewMacc
    /\ macc_error = FALSE

(***************************************************************************)
(* The two NPV implementations applied to the same series.                 *)
(***************************************************************************)
NpvRatePcts == {100, -50, -100}

CashValues == {-1000, 300}

SeriesUpTo(n) == UNION {[1..k -> CashValues] : k \in 0..n}

\* Long series at 0 %, short ones at the other rates.
NpvInputs ==
    {[rate_pct |-> 0, cashflows |-> s] : s \in SeriesUpTo(MaxSeriesLen)}
        \cup {[rate_pct |-> r, cashflows |-> s] :
                  r \in NpvRatePcts, s \in SeriesUpTo(MaxShortLen)}

AsFloats(s) == [i \in 1..Len(s) |-> RInt(s[i])]

NoNpvOutput == [arg |-> RZero, standalone |-> RZero, detailed |-> RZero, done |-> FALSE]

\* No option was handed to calculate_npv_detailed yet.
NoCashflowRun ==
    [opt |-> DefaultOption, cashflows |-> <<>>, npv |-> RZero, done |-> FALSE]

IdleNpv ==
    /\ npv_in = [rate_pct |-> 0, cashflows |-> <<>>]
    /\ npv_out = NoNpvOutput
    /\ cashflow_run = NoCashflowRun

\* Option records calculate_npv_detailed can be handed: the form's values, and
\* records read back from the store (a residual value, a lifetime of 0).
OptionInputs ==
    {[DefaultOption EXCEPT !.capex_own = 1000, !.annual_benefit = 300,
                           !.benefit_duration = 1, !.opex_regular_costs = 100,
                           !.lifetime = n, !.discount_rate = d,
                           !.salvage_value = sv, !.year_of_salvage = y,
                           !.residual_value = r] :
        n \in 0..MaxLifetime, d \in {0, -100}, sv \in {-100, 0, 200},
        y \in 0..(MaxLifetime + 1), r \in {0, 50}}

ChooseOption ==
    /\ \E opt \in OptionInputs : cashflow_run' = [NoCashflowRun EXCEPT !.opt = opt]
    /\ UNCHANGED <<npv_in, npv_out>>

ApplyCashflows ==
    /\ ~cashflow_run.done
    /\ cashflow_run' = [opt |-> cashflow_run.opt,
                        cashflows |-> DetailedCashflows(cashflow_run.opt),
                        npv |-> calculate_npv_detailed(cashflow_run.opt),
                        done |-> TRUE]
    /\ UNCHANGED <<npv_in, npv_out>>

ChooseNpvInput ==
    /\ npv_in' \in NpvInputs
    /\ npv_out' = NoNpvOutput
    /\ UNCHANGED cashflow_run

\* calculate_npv is handed the rate either as the percentage itself or as the
\* fraction; the discounting of calculate_npv_detailed divides by 100 itself.
ApplyNpv ==
    \E arg \in {RInt(npv_in.rate_pct), Pct(npv_in.rate_pct)} :
        /\ npv_out' = [arg |-> arg,
                       standalone |-> calculate_npv(arg, AsFloats(npv_in.cashflows)),
                       detailed |-> DiscountCashflows(RInt(npv_in.rate_pct),
                                                      AsFloats(npv_in.cashflows)),
                       done |-> TRUE]
        /\ UNCHANGED <<npv_in, cashflow_run>>

(***************************************************************************)
(* Fuel and energy calculator (fuel_energy_calculator_ui) and its store.   *)
(***************************************************************************)
ScopeNames == <<"Scope 1", "Scope 2", "Scope 3">>

ScopeSet == {"Scope 1", "Scope 2", "Scope 3"}

ScopeKeys == {"1", "2", "3"}

\* f"Scope {k}" of the Save handler.
ScopeOfKey(k) ==
    CASE k = "1" -> "Scope 1" [] k = "2" -> "Scope 2" [] k = "3" -> "Scope 3"

\* row['scope'].replace("Scope ", "") of load_calculation_from_db.
KeyOfScope(scope) ==
    CASE scope = "Scope 1" -> "1" [] scope = "Scope 2" -> "2" [] scope = "Scope 3" -> "3"
      [] OTHER -> scope

\* An inventory row as the form pass leaves it: emission = qty * ef, row_num = i.
FuelRow(scope, name, quantity, ef, row_num) ==
    [scope |-> scope, name |-> name, quantity |-> quantity, ef |-> ef,
     emission |-> RMul(quantity, ef), row_num |-> row_num]

Rows(calc_rows) ==
    [i \in 1..Len(calc_rows) |->
        FuelRow(calc_rows[i].scope, calc_rows[i].name, calc_rows[i].quantity,
                calc_rows[i].ef, i - 1)]

\* One pass of the form: the widgets hand back the session values; a ticked
\* same-year box overwrites the previous year and its production.
FormPass(c) ==
    [c EXCEPT !.previous_year = IF c.same_year THEN c.baseline_year ELSE @,
              !.previous_year_production =
                  IF c.same_year THEN c.baseline_production ELSE @,
              !.baseline_rows = Rows(@)]

ZeroOverrides == [k \in ScopeKeys |-> RZero]

Overrides(s1, s2, s3) ==
    [k \in ScopeKeys |-> RInt(CASE k = "1" -> s1 [] k = "2" -> s2 [] k = "3" -> s3)]

Reductions(s1, s2, s3) ==
    [scope \in ScopeSet |->
        RInt(CASE scope = "Scope 1" -> s1 [] scope = "Scope 2" -> s2
               [] scope = "Scope 3" -> s3)]

\* st.session_state.calc of a fresh session, after the first pass of the page.
DefaultCalc ==
    FormPass(
        [unique_code |-> "", org_name |-> "", sector |-> "",
         baseline_year |-> 2022, target_year |-> 2030, previous_year |-> 2023,
         baseline_production |-> RInt(1000), previous_year_production |-> RInt(1050),
         growth_rate_pct |-> RInt(5), same_year |-> FALSE,
         baseline_emissions_input |-> ZeroOverrides,
         baseline_rows |->
             <<FuelRow("Scope 1", "Natural Gas", RZero, Rat(188, 100), 0),
               FuelRow("Scope 2", "Electricity", RZero, Rat(1, 2), 1),
               FuelRow("Scope 3", "Logistics", RZero, Rat(1, 10), 2)>>,
         reductions_pct |-> Reductions(30, 50, 20)])

\* target_production = baseline_production * (1 + growth_decimal) ** years
growth_decimal(c) == RDiv(c.growth_rate_pct, RInt(100))

target_production(c) ==
    RMul(c.baseline_production,
         RPow(RAdd(ROne, growth_decimal(c)), c.target_year - c.baseline_year))

(***************************************************************************)
(* Section 4 of the page: the emission summary.                            *)
(***************************************************************************)
RECURSIVE SumEmissions(_, _)
SumEmissions(rows, scope) ==
    IF rows = <<>> THEN RZero
    ELSE RAdd(IF Head(rows).scope = scope THEN Head(rows).emission ELSE RZero,
              SumEmissions(Tail(rows), scope))

\* df.groupby('scope')['emission'].sum().reindex([...], fill_value=0.0)
previous_emissions_by_scope(c) ==
    [scope \in ScopeSet |-> SumEmissions(c.baseline_rows, scope)]

baseline_emissions_by_scope(c) ==
    IF ~c.same_year
    THEN [scope \in ScopeSet |-> c.baseline_emissions_input[KeyOfScope(scope)]]
    ELSE previous_emissions_by_scope(c)

target_emissions_by_scope(c) ==
    [scope \in ScopeSet |->
        RMul(baseline_emissions_by_scope(c)[scope],
             RSub(ROne, RDiv(c.reductions_pct[scope], RInt(100))))]

\* The division without its guard.
safe_specific_unguarded(emission, production) ==
    IF emission.n = 0 THEN RZero ELSE RDiv(emission, production)

\* emission / production if production != 0 else 0.0 (a zero emission gives 0.0
\* on either branch, so the production is not looked at then).
safe_specific(emission, production) ==
    IF emission.n = 0 THEN RZero
    ELSE IF production.n # 0 THEN RDiv(emission, production) ELSE RZero

previous_specific_by_scope(c) ==
    [scope \in ScopeSet |->
        safe_specific(previous_emissions_by_scope(c)[scope], c.previous_year_production)]

baseline_specific_by_scope(c) ==
    [scope \in ScopeSet |->
        safe_specific(baseline_emissions_by_scope(c)[scope], c.baseline_production)]

target_specific_by_scope(c) ==
    [scope \in ScopeSet |->
        safe_specific(target_emissions_by_scope(c)[scope], target_production(c))]

production_growth_factor(c) ==
    IF c.previous_year_production.n # 0
    THEN RDiv(target_production(c), c.previous_year_production)
    ELSE ROne

\* previous_emissions_by_scope * production_growth_factor (0.0 for a zero emission).
bau_emissions_by_scope(c) ==
    [scope \in ScopeSet |->
        IF previous_emissions_by_scope(c)[scope].n = 0 THEN RZero
        ELSE RMul(previous_emissions_by_scope(c)[scope], production_growth_factor(c))]

bau_specific_by_scope(c) == previous_specific_by_scope(c)

\* Series.sum() over the three scopes.
SumScopes(by_scope) ==
    RAdd(RAdd(by_scope["Scope 1"], by_scope["Scope 2"]), by_scope["Scope 3"])

\* The Total row of the summary table: absolute totals and their intensities.
summary_totals(c) ==
    [total_previous |-> SumScopes(previous_emissions_by_scope(c)),
     total_baseline |-> SumScopes(baseline_emissions_by_scope(c)),
     total_target |-> SumScopes(target_emissions_by_scope(c)),
     total_bau |-> SumScopes(bau_emissions_by_scope(c)),
     total_previous_specific |->
         safe_specific(SumScopes(previous_emissions_by_scope(c)),
                       c.previous_year_production),
     total_baseline_specific |->
         safe_specific(SumScopes(baseline_emissions_by_scope(c)), c.baseline_production),
     total_target_specific |->
         safe_specific(SumScopes(target_emissions_by_scope(c)), target_production(c)),
     total_bau_specific |->
         safe_specific(SumScopes(bau_emissions_by_scope(c)), target_production(c))]

reduction_vs_baseline(c) ==
    [scope \in ScopeSet |->
        RSub(baseline_emissions_by_scope(c)[scope], target_emissions_by_scope(c)[scope])]

reduction_quantity_by_scope(c) ==
    [scope \in ScopeSet |->
        RSub(bau_emissions_by_scope(c)[scope], target_emissions_by_scope(c)[scope])]

(***************************************************************************)
(* Forms a user fills in.                                                  *)
(***************************************************************************)
\* The same-year box ticked: one Scope 1 row of 1000 t, growth 50 % over one
\* year, a 20 % Scope 1 target.
SameYearForm ==
    [unique_code |-> "", org_name |-> "Org", sector |-> "Sec",
     baseline_year |-> 2022, target_year |-> 2023, previous_year |-> 2023,
     baseline_production |-> RInt(1000), previous_year_production |-> RInt(1050),
     growth_rate_pct |-> RInt(50), same_year |-> TRUE,
     baseline_emissions_input |-> ZeroOverrides,
     baseline_rows |-> <<FuelRow("Scope 1", "Coal", RInt(1000), ROne, 0)>>,
     reductions_pct |-> Reductions(20, 0, 0)]

\* Previous year after the baseline year, overrides for Scope 1 and Scope 3.
OverrideForm ==
    [unique_code |-> "", org_name |-> "Org", sector |-> "Sec",
     baseline_year |-> 2022, target_year |-> 2023, previous_year |-> 2023,
     baseline_production |-> RInt(1000), previous_year_production |-> RInt(500),
     growth_rate_pct |-> RInt(5), same_year |-> FALSE,
     baseline_emissions_input |-> Overrides(500, 0, 200),
     baseline_rows |-> <<FuelRow("Scope 1", "Diesel", RInt(100), RInt(2), 0),
                         FuelRow("Scope 2", "Electricity", RInt(50), ROne, 1)>>,
     reductions_pct |-> Reductions(30, 50, 20)]

\* The box left unticked while the previous year is typed equal to the baseline year.
EqualYearsForm ==
    [unique_code |-> "", org_name |-> "Org", sector |-> "Sec",
     baseline_year |-> 2022, target_year |-> 2024, previous_year |-> 2022,
     baseline_production |-> RInt(1000), previous_year_production |-> RInt(2000),
     growth_rate_pct |-> RZero, same_year |-> FALSE,
     baseline_emissions_input |-> Overrides(500, 0, 0),
     baseline_rows |-> <<FuelRow("Scope 1", "Coal", RInt(100), ROne, 0)>>,
     reductions_pct |-> Reductions(10, 0, 0)]

\* Previous Year Production typed as 0 (the number_input has no minimum), with
\* a Scope 1 inventory of 100 t and growth 10 % over one year.
ZeroPreviousForm ==
    [unique_code |-> "", org_name |-> "Org", sector |-> "Sec",
     baseline_year |-> 2022, target_year |-> 2023, previous_year |-> 2023,
     baseline_production |-> RInt(1000), previous_year_production |-> RZero,
     growth_rate_pct |-> RInt(10), same_year |-> FALSE,
     baseline_emissions_input |-> Overrides(300, 0, 0),
     baseline_rows |-> <<FuelRow("Scope 1", "Coal", RInt(100), ROne, 0)>>,
     reductions_pct |-> Reductions(10, 0, 0)]

\* Baseline Production typed as 0, so that the target production is 0 as well.
ZeroBaselineForm ==
    [unique_code |-> "", org_name |-> "Org", sector |-> "Sec",
     baseline_year |-> 2022, target_year |-> 2023, previous_year |-> 2023,
     baseline_production |-> RZero, previous_year_production |-> RInt(500),
     growth_rate_pct |-> RInt(10), same_year |-> FALSE,
     baseline_emissions_input |-> Overrides(300, 0, 0),
     baseline_rows |-> <<FuelRow("Scope 1", "Coal", RInt(100), ROne, 0)>>,
     reductions_pct |-> Reductions(10, 0, 0)]

FuelForms ==
    {SameYearForm, OverrideForm, EqualYearsForm, ZeroPreviousForm, ZeroBaselineForm}

\* Identifiers "Auto-Generate ID" can produce (the uuid suffix makes them fresh).
FuelCodes == {"F1", "F2"}

(***************************************************************************)
(* save_calculation_to_db and load_calculation_from_db.                    *)
(***************************************************************************)
\* The save_data dictionary the Save handler builds; base_emissions is empty
\* (None) when the same-year box is ticked.
SaveData(c) ==
    [unique_code |-> c.unique_code, org_name |-> c.org_name, sector |-> c.sector,
     baseline_year |-> c.baseline_year, previous_year |-> c.previous_year,
     target_year |-> c.target_year, baseline_production |-> c.baseline_production,
     previous_year_production |-> c.previous_year_production,
     growth_rate |-> growth_decimal(c), target_production |-> target_production(c),
     materials_baseline |-> c.baseline_rows,
     reductions |-> [scope \in ScopeSet |-> RDiv(c.reductions_pct[scope], RInt(100))],
     base_emissions |->
         IF ~c.same_year
         THEN {[scope |-> ScopeOfKey(k), value |-> c.baseline_emissions_input[k]] :
                  k \in ScopeKeys}
         ELSE {}]

CalculationRow(id, sd) ==
    [id |-> id, unique_code |-> sd.unique_code, org_name |-> sd.org_name,
     sector |-> sd.sector, baseline_year |-> sd.baseline_year,
     previous_year |-> sd.previous_year, target_year |-> sd.target_year,
     baseline_production |-> sd.baseline_production,
     previous_year_production |-> sd.previous_year_production,
     growth_rate |-> sd.growth_rate, target_production |-> sd.target_production]

\* The four tables and the AUTOINCREMENT counter as one value.
FuelStore ==
    [seq |-> fuel_seq, calculations |-> calculations,
     materials_baseline |-> materials_baseline,
     emission_reductions |-> emission_reductions,
     base_value_details |-> base_value_details]

EmptyFuelStore ==
    [seq |-> 0, calculations |-> {}, materials_baseline |-> {},
     emission_reductions |-> {}, base_value_details |-> {}]

\* INSERT OR REPLACE on the UNIQUE unique_code: the old record goes and the new one
\* gets the next AUTOINCREMENT id; the child tables are then rewritten for that id.
StoreAfterSave(st, sd) ==
    LET calc_id == st.seq + 1
    IN [seq |-> calc_id,
        calculations |->
            {r \in st.calculations : r.unique_code # sd.unique_code}
                \cup {CalculationRow(calc_id, sd)},
        materials_baseline |->
            {m \in st.materials_baseline : m.calculation_id # calc_id}
                \cup {[calculation_id |-> calc_id, row_num |-> i - 1,
                       scope |-> sd.materials_baseline[i].scope,
                       name |-> sd.materials_baseline[i].name,
                       quantity |-> sd.materials_baseline[i].quantity,
                       ef |-> sd.materials_baseline[i].ef,
                       emission |-> sd.materials_baseline[i].emission] :
                          i \in 1..Len(sd.materials_baseline)},
        emission_reductions |->
            {x \in st.emission_reductions : x.calculation_id # calc_id}
                \cup {[calculation_id |-> calc_id, scope |-> scope,
                       reduction_pct |-> sd.reductions[scope]] : scope \in ScopeSet},
        base_value_details |->
            {b \in st.base_value_details : b.calculation_id # calc_id}
                \cup {[calculation_id |-> calc_id, scope |-> b.scope, value |-> b.value] :
                          b \in {x \in sd.base_emissions : x.value.n # 0}}]

HoldsFuelStore(st) ==
    /\ fuel_seq = st.seq
    /\ calculations = st.calculations
    /\ materials_baseline = st.materials_baseline
    /\ emission_reductions = st.emission_reductions
    /\ base_value_details = st.base_value_details

save_calculation_to_db(sd) ==
    LET st == StoreAfterSave(FuelStore, sd)
    IN /\ fuel_seq' = st.seq
       /\ calculations' = st.calculations
       /\ materials_baseline' = st.materials_baseline
       /\ emission_reductions' = st.emission_reductions
       /\ base_value_details' = st.base_value_details
       /\ fuel_save_result' = "True"

\* What the connection of the save holds, uncommitted, once the first `done`
\* of its four writes ran: the record, the material rows, the reduction
\* percentages, the baseline overrides.
StoreAfterSteps(st, sd, done) ==
    LET full == StoreAfterSave(st, sd)
    IN [seq |-> IF done >= 1 THEN full.seq ELSE st.seq,
        calculations |-> IF done >= 1 THEN full.calculations ELSE st.calculations,
        materials_baseline |->
            IF done >= 2 THEN full.materials_baseline ELSE st.materials_baseline,
        emission_reductions |->
            IF done >= 3 THEN full.emission_reductions ELSE st.emission_reductions,
        base_value_details |->
            IF done >= 4 THEN full.base_value_details ELSE st.base_value_details]

\* The handler of the exception commits what the connection holds.
CommitPartial(committed, uncommitted) == uncommitted

\* conn.rollback(): the database is what it was when the transaction began.
Rollback(committed, uncommitted) == committed

\* save_calculation_to_db when a statement (or, with all four writes done, the
\* commit) raises: the except branch rolls back and returns False.
save_calculation_fails(sd, done) ==
    \E st \in {Rollback(FuelStore, StoreAfterSteps(FuelStore, sd, done))} :
        /\ fuel_seq' = st.seq
        /\ calculations' = st.calculations
        /\ materials_baseline' = st.materials_baseline
        /\ emission_reductions' = st.emission_reductions
        /\ base_value_details' = st.base_value_details
        /\ fuel_save_result' = "False"

\* ORDER BY row_num
RECURSIVE OrderDescending(_)
OrderDescending(S) ==
    IF S = {} THEN <<>>
    ELSE LET m == CHOOSE x \in S : \A y \in S : x.row_num >= y.row_num
         IN <<m>> \o OrderDescending(S \ {m})

RECURSIVE OrderByRowNum(_)
OrderByRowNum(S) ==
    IF S = {} THEN <<>>
    ELSE LET m == CHOOSE x \in S : \A y \in S : x.row_num <= y.row_num
         IN <<m>> \o OrderByRowNum(S \ {m})

NotFound == [found |-> FALSE]

load_calculation_from_db(unique_code) ==
    IF \A r \in calculations : r.unique_code # unique_code THEN NotFound
    ELSE LET calc_row == CHOOSE r \in calculations : r.unique_code = unique_code
             calc_id == calc_row.id
             selected == {[scope |-> m.scope, name |-> m.name, quantity |-> m.quantity,
                            ef |-> m.ef, emission |-> m.emission, row_num |-> m.row_num] :
                             m \in {x \in materials_baseline : x.calculation_id = calc_id}}
             reds == {e \in emission_reductions : e.calculation_id = calc_id}
             bases == {b \in base_value_details : b.calculation_id = calc_id}
         IN [found |-> TRUE,
             meta |-> calc_row,
             baseline_rows |-> OrderByRowNum(selected),
             reductions_pct |->
                 [scope \in ScopeSet |->
                     IF \E e \in reds : e.scope = scope
                     THEN RMul((CHOOSE e \in reds : e.scope = scope).reduction_pct,
                               RInt(100))
                     ELSE RZero],
             baseline_input |->
                 [k \in ScopeKeys |->
                     IF \E b \in bases : KeyOfScope(b.scope) = k
                     THEN (CHOOSE b \in bases : KeyOfScope(b.scope) = k).value
                     ELSE RZero]]

\* Python's round(x, 2): to the nearest hundredth, ties to the even one.
Round2(r) ==
    LET x == RMul(r, RInt(100))
        q == x.n \div x.d
        twice == 2 * (x.n - q * x.d)
        up == twice > x.d \/ (twice = x.d /\ q % 2 = 1)
    IN Rat(IF up THEN q + 1 ELSE q, 100)

(***************************************************************************)
(* Handlers of the fuel and energy calculator page.                        *)
(***************************************************************************)
\* "New / Clear"
NewCalc ==
    /\ calc' = DefaultCalc
    /\ UNCHANGED fuelStoreVars

\* A pass in which the user changed the form; the identifier field is read-only.
EditFuelForm ==
    /\ \E f \in FuelForms : calc' = FormPass([f EXCEPT !.unique_code = calc.unique_code])
    /\ UNCHANGED fuelStoreVars

\* "Auto-Generate ID"
GenerateCalcId ==
    /\ calc.org_name # ""
    /\ calc.sector # ""
    /\ \E code \in FuelCodes \ ({calc.unique_code} \cup {r.unique_code : r \in calculations}) :
           calc' = FormPass([calc EXCEPT !.unique_code = code])
    /\ UNCHANGED fuelStoreVars

\* "Save Calculation"
SaveCalculation ==
    /\ calc.unique_code # ""
    /\ fuel_seq < MaxCalcId
    /\ save_calculation_to_db(SaveData(calc))
    /\ UNCHANGED calc

\* "Save Calculation" when the database raises during the save.
SaveCalculationFails ==
    /\ calc.unique_code # ""
    /\ fuel_seq < MaxCalcId
    /\ \E done \in 0..4 : save_calculation_fails(SaveData(calc), done)
    /\ UNCHANGED calc

\* What the Load handler writes into the session from a loaded calculation.
LoadedCalc(c, loaded) ==
    [c EXCEPT !.unique_code = loaded.meta.unique_code,
              !.org_name = loaded.meta.org_name,
              !.sector = loaded.meta.sector,
              !.baseline_year = loaded.meta.baseline_year,
              !.target_year = loaded.meta.target_year,
              !.previous_year = loaded.meta.previous_year,
              !.baseline_production = loaded.meta.baseline_production,
              !.previous_year_production = loaded.meta.previous_year_production,
              !.growth_rate_pct = Round2(RMul(loaded.meta.growth_rate, RInt(100))),
              !.same_year = (loaded.meta.baseline_year = loaded.meta.previous_year),
              !.baseline_rows = loaded.baseline_rows,
              !.reductions_pct = loaded.reductions_pct,
              !.baseline_emissions_input = loaded.baseline_input]

\* "Load" with a stored identifier selected, and the pass that follows it.
LoadCalculation ==
    /\ \E r \in calculations :
           calc' = FormPass(LoadedCalc(calc, load_calculation_from_db(r.unique_code)))
    /\ UNCHANGED fuelStoreVars

\* strategy_dashboard_ui: baseline_emission = sum(baseline_input.values()) and
\* previous_emission = df_rows['emission'].sum() of the selected calculation.
dashboard_baseline_emission(unique_code) ==
    LET baseline_input == load_calculation_from_db(unique_code).baseline_input
    IN RAdd(RAdd(baseline_input["1"], baseline_input["2"]), baseline_input["3"])

dashboard_previous_emission(unique_code) ==
    RSum([i \in 1..Len(load_calculation_from_db(unique_code).baseline_rows) |->
             load_calculation_from_db(unique_code).baseline_rows[i].emission])

\* The dashboard's growth factor and BAU total, from the stored meta row.
dashboard_growth_factor(unique_code) ==
    LET meta == load_calculation_from_db(unique_code).meta
    IN IF meta.previous_year_production.n # 0
       THEN RDiv(meta.target_production, meta.previous_year_production)
       ELSE ROne

dashboard_total_bau(unique_code) ==
    IF dashboard_previous_emission(unique_code).n = 0 THEN RZero
    ELSE RMul(dashboard_previous_emission(unique_code),
              dashboard_growth_factor(unique_code))

(***************************************************************************)
(* Record Management: Delete, and the material names offered elsewhere.    *)
(***************************************************************************)
\* Neither button was pressed in the pass just run.
NoDelete == [stage |-> "idle", code |-> ""]

\* Any other interaction: the pass does not render "Confirm Delete".
LeaveDelete == fuel_delete' = NoDelete

\* "Delete" pressed with a stored identifier selected: this pass renders the
\* button "Confirm Delete <selected>?", which returns False on the pass that
\* creates it.
PressDelete ==
    /\ \E r \in calculations :
           fuel_delete' = [stage |-> "asked", code |-> r.unique_code]
    /\ UNCHANGED <<calc, fuelStoreVars>>

\* "Confirm Delete <selected>?" pressed: the pass that follows finds "Delete"
\* unpressed, so the block holding the confirm button and the DELETE statement
\* is skipped.
ConfirmDelete ==
    /\ fuel_delete.stage = "asked"
    /\ fuel_delete' = [stage |-> "confirmed", code |-> fuel_delete.code]
    /\ UNCHANGED <<calc, fuelStoreVars>>

DefaultMaterials ==
    {"Coal", "Natural Gas", "Electricity", "Diesel", "Gasoline", "LPG", "Biomass",
     "Steam", "Waste", "Renewable Energy", "Carbon Credits", "Logistics"}

\* The names the function returns (it returns them sorted; there is no table
\* materials_target).
get_materials_from_fuel_energy_db ==
    DefaultMaterials \cup {m.name : m \in {x \in materials_baseline : x.name # ""}}

\* A calculation whose only inventory row names a material outside the defaults.
PetcokeForm ==
    [unique_code |-> "", org_name |-> "Org", sector |-> "Sec",
     baseline_year |-> 2022, target_year |-> 2023, previous_year |-> 2023,
     baseline_production |-> RInt(1000), previous_year_production |-> RInt(1000),
     growth_rate_pct |-> RZero, same_year |-> FALSE,
     baseline_emissions_input |-> Overrides(300, 0, 0),
     baseline_rows |-> <<FuelRow("Scope 1", "Petcoke", RInt(100), RInt(3), 0)>>,
     reductions_pct |-> Reductions(10, 0, 0)]

InitFuel ==
    /\ calc = DefaultCalc
    /\ HoldsFuelStore(EmptyFuelStore)
    /\ fuel_delete = NoDelete
    /\ fuel_save_result = "not called"

(***************************************************************************)
(* Saving MACC projects and the MACC chart of the strategy dashboard.      *)
(***************************************************************************)
\* Identifiers "Generate Project ID" can produce (the uuid suffix makes them fresh).
ProjectIds == <<"P1", "P2", "P3">>

\* Option pairs entered for the projects of a portfolio.
PortfolioPairs ==
    {<<ScenarioA, ScenarioB>>, <<ScenarioZ, ScenarioB>>, <<ScenarioB, ScenarioA>>}

\* A pass in which the user typed the organization and the project name.
EditProjectInfo ==
    /\ macc' = [macc EXCEPT !.organization = "Org", !.project_name = "N"]
    /\ macc_error' = FALSE

\* The identifiers not in use: neither stored nor shown in the session.
UnusedIds ==
    {k \in 1..Len(ProjectIds) :
        ProjectIds[k] \notin ({macc.project_id} \cup {r.id : r \in npv_projects})}

\* "Generate Project ID": the uuid suffix gives an identifier not in use; which
\* one is immaterial, so the first is taken.
GenerateProjectId ==
    /\ macc.organization # ""
    /\ macc.project_name # ""
    /\ UnusedIds # {}
    /\ macc' = [macc EXCEPT !.project_id =
                   ProjectIds[CHOOSE k \in UnusedIds : \A j \in UnusedIds : k <= j]]
    /\ macc_error' = FALSE

\* The columns of a npv_projects record that the dashboard reads.
ProjectRecord(m) ==
    [id |-> m.project_id, organization |-> m.organization,
     project_name |-> m.project_name, result |-> m.result,
     npv1 |-> m.calculated_npv1, npv2 |-> m.calculated_npv2,
     mac |-> m.calculated_mac, total_co2_diff |-> m.total_co2_diff]

\* INSERT INTO npv_projects: one more record.
InsertProject(store, m) == store \cup {ProjectRecord(m)}

\* An update that adds the session's record and keeps the earlier one.
UpdateProjectKeepingOld(store, m) == store \cup {ProjectRecord(m)}

\* UPDATE npv_projects SET ... WHERE id = ?: the records with this id take the
\* session's values.
UpdateProject(store, m) ==
    {IF r.id = m.project_id THEN ProjectRecord(m) ELSE r : r \in store}

\* "Save Project": UPDATE of the record with this id if there is one, else INSERT.
SaveProject ==
    /\ macc.project_id # ""
    /\ npv_projects' =
           IF \E r \in npv_projects : r.id = macc.project_id
           THEN UpdateProject(npv_projects, macc)
           ELSE InsertProject(npv_projects, macc)
    /\ npv_order' =
           IF \E r \in npv_projects : r.id = macc.project_id
           THEN npv_order ELSE <<macc.project_id>> \o npv_order
    /\ UNCHANGED <<macc, macc_error>>

DigitOf(ch) == CHOOSE k \in 0..9 : DigitChars[k + 1] = ch

\* The number the two regular expressions find on the "Annual CO2e Difference"
\* line: the first run of digits and commas, commas removed (a leading "-" is
\* not part of the run).
RECURSIVE DigitRunValue(_, _)
DigitRunValue(chars, acc) ==
    IF chars = <<>> THEN acc
    ELSE IF Head(chars) = "," THEN DigitRunValue(Tail(chars), acc)
    ELSE IF Head(chars) = "-" THEN DigitRunValue(Tail(chars), acc)
    ELSE DigitRunValue(Tail(chars), 10 * acc + DigitOf(Head(chars)))

\* annual_co2_diff of get_saved_macc_projects: the total when there is no result text.
ParseAnnual(result, co2_total) ==
    IF result.annual = <<>> THEN co2_total ELSE DigitRunValue(result.annual, 0)

DisplayName(r) ==
    IF r.organization # "" /\ r.project_name # ""
    THEN <<r.organization, " - ", r.project_name>>
    ELSE <<r.id>>

get_saved_macc_projects ==
    {[id |-> r.id, name |-> DisplayName(r), mac |-> r.mac,
      co2_reduction |-> ParseAnnual(r.result, r.total_co2_diff),
      cost |-> RSub(r.npv1, r.npv2), total_co2_diff |-> r.total_co2_diff] :
         r \in npv_projects}

\* The stored record with the id.
ProjectOf(id) == CHOOSE r \in npv_projects : r.id = id

\* selected_project: the dropdown lists display names and the handler takes the
\* id of the first option of project_options with the selected name ("" for the
\* blank entry); the options come ORDER BY created_at DESC.
selected_project(entry) ==
    IF entry = "" THEN ""
    ELSE LET same == {k \in 1..Len(npv_order) :
                         DisplayName(ProjectOf(npv_order[k]))
                             = DisplayName(ProjectOf(entry))}
         IN npv_order[CHOOSE k \in same : \A j \in same : k <= j]

\* "Delete Project" with an entry of the dropdown picked: the confirmation is
\* set to the id the name resolves to; with the blank entry an error is shown.
PressDeleteProject ==
    /\ \E entry \in {""} \cup {r.id : r \in npv_projects} :
           IF selected_project(entry) = ""
           THEN UNCHANGED deleteVars
           ELSE /\ delete_confirmation' = selected_project(entry)
                /\ delete_picked' = entry
    /\ UNCHANGED <<macc, macc_error, npvStoreVars>>

\* "Yes, Delete Permanently", drawn while a confirmation is pending.
ConfirmDeleteProject ==
    /\ delete_confirmation # ""
    /\ npv_projects' = {r \in npv_projects : r.id # delete_confirmation}
    /\ npv_order' = SelectSeq(npv_order, LAMBDA id : id # delete_confirmation)
    /\ macc' = IF (\E r \in npv_projects : r.id = delete_confirmation)
                  /\ macc.project_id = delete_confirmation
               THEN NewMacc ELSE macc
    /\ delete_confirmation' = ""
    /\ delete_picked' = ""
    /\ UNCHANGED macc_error

\* "Cancel", drawn while a confirmation is pending.
CancelDeleteProject ==
    /\ delete_confirmation # ""
    /\ delete_confirmation' = ""
    /\ delete_picked' = ""
    /\ UNCHANGED <<macc, macc_error, npvStoreVars>>

\* A project an earlier session saved under another project name.
StoredMaccProject ==
    [ProjectRecord(NewMacc) EXCEPT !.id = ProjectIds[Len(ProjectIds)],
                                   !.organization = "Org", !.project_name = "M"]

\* sort_values('mac'): the rows in an order of non-decreasing mac (ties in any order).
SortedByMac(portfolio) ==
    {order \in [1..Cardinality(portfolio) -> portfolio] :
        /\ \A i, j \in 1..Cardinality(portfolio) : i # j => order[i] # order[j]
        /\ \A i \in 2..Cardinality(portfolio) : ~RLess(order[i].mac, order[i - 1].mac)}

\* cumulative_co2 = co2_reduction.cumsum()
RECURSIVE CumulativeCo2(_, _)
CumulativeCo2(order, i) ==
    IF i = 0 THEN 0 ELSE CumulativeCo2(order, i - 1) + order[i].co2_reduction

\* x_start = cumulative_co2.shift(1, fill_value=0)
XStartUnshifted(order, i) == CumulativeCo2(order, i)

XStart(order, i) == IF i = 1 THEN 0 ELSE CumulativeCo2(order, i - 1)

\* One go.Bar per row: centre (x_start + x_end) / 2, width co2_reduction.
MaccBars(order) ==
    [i \in 1..Len(order) |->
        [id |-> order[i].id, name |-> order[i].name, mac |-> order[i].mac,
         x_start |-> XStart(order, i), x_end |-> CumulativeCo2(order, i),
         centre |-> Rat(XStart(order, i) + CumulativeCo2(order, i), 2),
         width |-> order[i].co2_reduction]]

\* A pass of the strategy dashboard with a stored calculation and a set of
\* project names selected.  The waterfall explanation divides by the baseline
\* emission before the MACC chart is drawn.
ViewDashboard ==
    \E r \in calculations, projects \in {get_saved_macc_projects} :
        \E baseline_emission \in {dashboard_baseline_emission(r.unique_code)} :
            \E selected \in SUBSET {p.name : p \in projects} :
                \E portfolio \in {{p \in projects : p.name \in selected}} :
                    IF portfolio = {}
                    THEN /\ macc_chart' = <<>>
                         /\ dashboard_error' = FALSE
                    ELSE IF baseline_emission.n = 0
                    THEN /\ macc_chart' = <<>>
                         /\ dashboard_error' = TRUE
                    ELSE /\ \E order \in SortedByMac(portfolio) :
                                macc_chart' = MaccBars(order)
                         /\ dashboard_error' = FALSE

\* Any other page is shown: no chart on the screen.
LeaveDashboard ==
    /\ macc_chart' = <<>>
    /\ dashboard_error' = FALSE

\* The session keys of the strategy dashboard before any button was pressed
\* (strategy_action None, nothing loaded).
NoStrategy == [action |-> "", loaded_dashboard_id |-> "", baseline_calc_id |-> ""]

InitStrategy ==
    /\ strategy = NoStrategy
    /\ strategy_portfolios = {}

\* Ids str(uuid.uuid4())[:8] can give, names typed into "Dashboard Name" and
\* baseline calculations selected in the dashboard.
DashboardIds == {"D1", "D2", "D3"}

DashboardNames == {"A", "B"}

BaselineChoices == {"F1", "F2"}

\* INSERT OR REPLACE INTO strategy_portfolios: the rows that conflict with the
\* new one on the PRIMARY KEY id or on the UNIQUE name are deleted first.
InsertOrReplaceDashboard(store, row) ==
    {r \in store : r.id # row.id /\ r.name # row.name} \cup {row}

\* "New"
NewDashboard ==
    /\ strategy' = [strategy EXCEPT !.action = "new", !.loaded_dashboard_id = ""]
    /\ UNCHANGED strategy_portfolios

\* The baseline calculation picked in the dashboard content.
SelectBaseline ==
    /\ \E f \in BaselineChoices : strategy' = [strategy EXCEPT !.baseline_calc_id = f]
    /\ UNCHANGED strategy_portfolios

\* "Load", a dashboard picked by its name, "Load Selected".
LoadDashboard ==
    /\ \E r \in strategy_portfolios :
           strategy' = [action |-> "", loaded_dashboard_id |-> r.id,
                        baseline_calc_id |-> r.baseline_calc_id]
    /\ UNCHANGED strategy_portfolios

\* "Save", shown while no dashboard is loaded.
PressSaveDashboard ==
    /\ strategy.loaded_dashboard_id = ""
    /\ strategy' = [strategy EXCEPT !.action = "save"]
    /\ UNCHANGED strategy_portfolios

\* "Update", shown while a dashboard is loaded.
PressUpdateDashboard ==
    /\ strategy.loaded_dashboard_id # ""
    /\ strategy' = [strategy EXCEPT !.action = "update"]
    /\ UNCHANGED strategy_portfolios

\* "Confirm" of the Save/Update form with a name typed in.
ConfirmSaveDashboard ==
    /\ strategy.action \in {"save", "update"}
    /\ \E name \in DashboardNames :
           IF strategy.action = "save" /\ \E r \in strategy_portfolios : r.name = name
           THEN UNCHANGED strategyVars
           ELSE \E save_id \in (IF strategy.action = "save"
                                    \/ strategy.loaded_dashboard_id = ""
                                 THEN DashboardIds \ {r.id : r \in strategy_portfolios}
                                 ELSE {strategy.loaded_dashboard_id}) :
                    /\ strategy_portfolios' =
                           InsertOrReplaceDashboard(
                               strategy_portfolios,
                               [id |-> save_id, name |-> name,
                                baseline_calc_id |-> strategy.baseline_calc_id])
                    /\ strategy' = [strategy EXCEPT !.loaded_dashboard_id = save_id,
                                                    !.action = ""]

\* "Cancel" of the Save/Update form.
CancelSaveDashboard ==
    /\ strategy.action \in {"save", "update"}
    /\ strategy' = [strategy EXCEPT !.action = ""]
    /\ UNCHANGED strategy_portfolios

InitPortfolio ==
    /\ InitStrategy
    /\ npv_projects = {}
    /\ npv_order = <<>>
    /\ delete_confirmation = ""
    /\ delete_picked = ""
    /\ macc_chart = <<>>
    /\ dashboard_error = FALSE

\* The fuel database as an earlier session left it: F1 saved from the override
\* form, F2 saved from the same-year form.
StoredFuelCalculations ==
    StoreAfterSave(
        StoreAfterSave(EmptyFuelStore,
                       SaveData(FormPass([OverrideForm EXCEPT !.unique_code = "F1"]))),
        SaveData(FormPass([SameYearForm EXCEPT !.unique_code = "F2"])))

(***************************************************************************)
(* Specifications: one per page of the suite.  A page leaves the session   *)
(* state and the stores of the other pages alone.                          *)
(***************************************************************************)
(* The CO2 project calculator (co2_project_calculator_ui).  A data row is  *)
(* a dictionary: a function from the keys it has to their values.          *)
(***************************************************************************)
RowFields == {"ef", "abs_before", "abs_after", "spec_before", "spec_after"}

\* The row {} of a new project.
EmptyRow == [k \in {} |-> 0]

\* row.get(key, default)
Get(row, key, default) == IF key \in DOMAIN row THEN row[key] ELSE default

\* row[key] = value
With(row, key, value) ==
    [k \in DOMAIN row \cup {key} |-> IF k = key THEN value ELSE row[k]]

AbsRow(ef, before, after) ==
    [k \in {"ef", "abs_before", "abs_after"} |->
        IF k = "ef" THEN ef ELSE IF k = "abs_before" THEN before ELSE after]

SpecRow(ef, before, after) ==
    [k \in {"ef", "spec_before", "spec_after"} |->
        IF k = "ef" THEN ef ELSE IF k = "spec_before" THEN before ELSE after]

\* On the rows this program writes (standard keys, numbers) the normalisation
\* keeps the standard fields with their values.
normalize_data_row(row) == [k \in DOMAIN row \cap RowFields |-> row[k]]

enforce_specific_rules(data, calculation_method, data_type) ==
    IF calculation_method = "specific" /\ data_type = "output"
    THEN [i \in 1..Len(data) |->
             With(With(With(data[i], "abs_before", 1), "spec_before", 1), "spec_after", 1)]
    ELSE data

\* No cached baseline: the key emission_results_calculated is absent.
NoBaseline == <<>>

DefaultProject ==
    [project_code |-> "", project_name |-> "",
     input_data |-> <<EmptyRow>>, output_data |-> <<EmptyRow>>,
     amp_before |-> 0, amp_after |-> 0,
     calculation_method |-> "absolute", is_loaded_from_db |-> FALSE,
     primary_output_before |-> 0, primary_output_after |-> 0,
     emission_results_calculated |-> NoBaseline]

\* The row dictionary render_emission_table builds from the widgets of one
\* row (the widgets show the row's values unless the user changed them).
RenderRowAsInput(row, calculation_method, is_output) ==
    IF calculation_method = "absolute"
    THEN AbsRow(Get(row, "ef", 0), Get(row, "abs_before", 0), Get(row, "abs_after", 0))
    ELSE SpecRow(Get(row, "ef", 0), Get(row, "spec_before", 0), Get(row, "spec_after", 0))

RenderRow(row, calculation_method, is_output) ==
    IF calculation_method = "absolute"
    THEN AbsRow(Get(row, "ef", 0), Get(row, "abs_before", 0), Get(row, "abs_after", 0))
    ELSE IF is_output
    THEN With(SpecRow(Get(row, "ef", 0), 1, 1), "abs_before", 1)
    ELSE SpecRow(Get(row, "ef", 0), Get(row, "spec_before", 0), Get(row, "spec_after", 0))

render_emission_table(data, calculation_method, is_output) ==
    [i \in 1..Len(data) |-> RenderRow(data[i], calculation_method, is_output)]

RECURSIVE SumInts(_)
SumInts(s) == IF s = <<>> THEN 0 ELSE Head(s) + SumInts(Tail(s))

\* calculate_emission: <<total_before, total_after>> of one section.
calculate_emission(p, section_data, section_name) ==
    LET amp_before == IF p.calculation_method = "specific" THEN p.amp_before ELSE 1
        amp_after == IF p.calculation_method = "specific" THEN p.amp_after ELSE 1
        Before(row) ==
            IF p.calculation_method = "absolute"
            THEN Get(row, "abs_before", 0) * Get(row, "ef", 0)
            ELSE (amp_before * (IF section_name = "output" THEN 1
                                ELSE Get(row, "spec_before", 0))) * Get(row, "ef", 0)
        After(row) ==
            IF p.calculation_method = "absolute"
            THEN Get(row, "abs_after", 0) * Get(row, "ef", 0)
            ELSE (amp_after * (IF section_name = "output" THEN 1
                               ELSE Get(row, "spec_after", 0))) * Get(row, "ef", 0)
    IN <<SumInts([i \in 1..Len(section_data) |-> Before(section_data[i])]),
         SumInts([i \in 1..Len(section_data) |-> After(section_data[i])])>>

\* net / quantity whatever the quantity.
SpNetUnguarded(net, quantity) == Rat(net, quantity)

\* net / quantity, 0.0 when the quantity is 0
SpNet(net, quantity) == IF quantity # 0 THEN Rat(net, quantity) ELSE RZero

\* The "Emission Results" of a pass.
EmissionResults(p) ==
    LET inp == calculate_emission(p, p.input_data, "input")
        out == calculate_emission(p, p.output_data, "output")
        specific == p.calculation_method = "specific"
        primary_output_before ==
            IF specific THEN 1 ELSE Get(p.output_data[1], "abs_before", 0)
        primary_output_after ==
            IF specific THEN 1 ELSE Get(p.output_data[1], "abs_after", 0)
        sp_net_before ==
            SpNet(inp[1] - out[1], IF specific THEN p.amp_before ELSE primary_output_before)
        sp_net_after ==
            SpNet(inp[2] - out[2], IF specific THEN p.amp_after ELSE primary_output_after)
    IN [net_before |-> inp[1] - out[1], net_after |-> inp[2] - out[2],
        sp_net_before |-> sp_net_before, sp_net_after |-> sp_net_after,
        co2_reduction |->
            RMul(RSub(sp_net_before, sp_net_after),
                 RInt(IF specific THEN p.amp_after ELSE primary_output_after)),
        primary_output_before |-> primary_output_before,
        primary_output_after |-> primary_output_after]

\* The baseline the tracking section computes when none is cached.
calculate_after_values(p) ==
    LET inp == calculate_emission(p, p.input_data, "input")
        out == calculate_emission(p, p.output_data, "output")
        specific == p.calculation_method = "specific"
        primary_output_after == Get(p.output_data[1], "abs_after", 0)
        primary_output_before == Get(p.output_data[1], "abs_before", 0)
        sp_net_after ==
            SpNet(inp[2] - out[2], IF specific THEN p.amp_after ELSE primary_output_after)
        sp_net_before ==
            SpNet(inp[1] - out[1], IF specific THEN p.amp_before ELSE primary_output_before)
    IN [net |-> inp[2] - out[2], sp_net |-> sp_net_after,
        co2_reduction |->
            RMul(RSub(sp_net_before, sp_net_after),
                 RInt(IF specific THEN p.amp_after ELSE primary_output_after)),
        primary_output_after |-> IF specific THEN p.amp_after ELSE primary_output_after,
        sp_net_before |-> sp_net_before]

\* A column that may hold NULL: <<>> for None, <<v>> for the value v.
None == <<>>

Some(v) == <<v>>

\* existing_values[key] of the tab of a year: of the rows of this project, section
\* and row index the one fetched last decides; 0.0 when there is none.
default_actual_of_year(p, section, idx, year) ==
    LET matching == {k \in 1..Len(project_actuals) :
                        /\ project_actuals[k].project_code = p.project_code
                        /\ project_actuals[k].year_number = year
                        /\ project_actuals[k].section_type = section
                        /\ project_actuals[k].row_index = idx}
        last == project_actuals[CHOOSE k \in matching : \A j \in matching : j <= k]
    IN IF matching = {} THEN 0
       ELSE IF p.calculation_method = "absolute" THEN last.absolute_value[1]
       ELSE last.specific_value[1]

default_actual(p, section, idx) == default_actual_of_year(p, section, idx, 1)

\* default_amp: amp_value of the row fetchone() returns, the first one stored.
default_amp_of_year(p, year) ==
    LET matching == {k \in 1..Len(amp_actuals_tracking) :
                        /\ amp_actuals_tracking[k].project_code = p.project_code
                        /\ amp_actuals_tracking[k].year_number = year}
    IN IF matching = {} THEN 0
       ELSE amp_actuals_tracking[CHOOSE k \in matching :
                                     \A j \in matching : k <= j].amp_value

default_amp(p) == default_amp_of_year(p, 1)

\* The widgets of the year-1 tab of "Track Project Actuals" when the section
\* is not drawn.
NoActuals == [method |-> "", input |-> <<>>, output |-> <<>>, amp |-> 0]

\* The values of the year-1 widgets after a pass: a widget keeps what the user
\* typed while it is drawn on every pass, a new widget shows the stored actual
\* (none is stored here: 0.0).  The absolute and the specific input widgets
\* have different keys; in specific mode the outputs are no widgets.
TrackingWidgets(p, a) ==
    IF p.project_code = "" THEN NoActuals
    ELSE [method |-> p.calculation_method,
          input |-> [i \in 1..Len(p.input_data) |->
                        IF a.method = p.calculation_method /\ i <= Len(a.input)
                        THEN a.input[i] ELSE default_actual(p, "input", i - 1)],
          output |-> IF p.calculation_method = "absolute"
                     THEN [i \in 1..Len(p.output_data) |->
                              IF a.method = p.calculation_method /\ i <= Len(a.output)
                              THEN a.output[i] ELSE default_actual(p, "output", i - 1)]
                     ELSE <<>>,
          amp |-> IF p.calculation_method = "specific" /\ a.method = p.calculation_method
                  THEN a.amp ELSE default_amp(p)]

\* The same for the widgets of the tab of a later year (their keys end in the
\* year: track_in_abs_{idx}_y{year}).
TrackingWidgetsOfYear(p, a, year) ==
    IF p.project_code = "" THEN NoActuals
    ELSE [method |-> p.calculation_method,
          input |-> [i \in 1..Len(p.input_data) |->
                        IF a.method = p.calculation_method /\ i <= Len(a.input)
                        THEN a.input[i]
                        ELSE default_actual_of_year(p, "input", i - 1, year)],
          output |-> IF p.calculation_method = "absolute"
                     THEN [i \in 1..Len(p.output_data) |->
                              IF a.method = p.calculation_method /\ i <= Len(a.output)
                              THEN a.output[i]
                              ELSE default_actual_of_year(p, "output", i - 1, year)]
                     ELSE <<>>,
          amp |-> IF p.calculation_method = "specific" /\ a.method = p.calculation_method
                  THEN a.amp ELSE default_amp_of_year(p, year)]

\* The year's emissions and CO2 reduction from the actual values a.
YearTracking(p, baseline_values, a) ==
    LET specific == p.calculation_method = "specific"
        current_amp_value == IF specific THEN a.amp ELSE 1
        year_input_emission ==
            SumInts([i \in 1..Len(p.input_data) |->
                        IF specific
                        THEN (current_amp_value * a.input[i]) * Get(p.input_data[i], "ef", 0)
                        ELSE a.input[i] * Get(p.input_data[i], "ef", 0)])
        year_output_emission ==
            SumInts([i \in 1..Len(p.output_data) |->
                        IF specific
                        THEN (current_amp_value * 1) * Get(p.output_data[i], "ef", 0)
                        ELSE a.output[i] * Get(p.output_data[i], "ef", 0)])
        year_net_emission == year_input_emission - year_output_emission
        reference == IF specific THEN current_amp_value ELSE a.output[1]
        year_sp_net == SpNet(year_net_emission, reference)
    IN [net_emission |-> year_net_emission, sp_net |-> year_sp_net,
        reference |-> reference,
        co2_reduction |->
            RMul(RSub(baseline_values.sp_net_before, year_sp_net), RInt(reference)),
        baseline_co2_reduction |-> baseline_values.co2_reduction]

\* One pass of the page below the buttons: method block, the two tables,
\* the emission results, the tracking section.
AfterTables(p) ==
    LET enforced ==
            IF ~p.is_loaded_from_db /\ p.calculation_method = "specific"
            THEN [p EXCEPT !.output_data = enforce_specific_rules(@, "specific", "output")]
            ELSE p
    IN [enforced EXCEPT
           !.input_data = render_emission_table(@, p.calculation_method, FALSE),
           !.output_data = render_emission_table(@, p.calculation_method, TRUE)]

AfterResults(p) ==
    [p EXCEPT !.primary_output_before = EmissionResults(p).primary_output_before,
              !.primary_output_after = EmissionResults(p).primary_output_after]

AfterBaseline(p) ==
    IF p.project_code # "" /\ p.emission_results_calculated = NoBaseline
    THEN [p EXCEPT !.emission_results_calculated = <<calculate_after_values(p)>>]
    ELSE p

\* What the page shows for the session project p once the tables, the
\* results and the baseline are done.
Shown(p, a) ==
    [project |-> p, actuals |-> TrackingWidgets(p, a),
     results |-> [emission |-> EmissionResults(p),
                  tracking |-> IF p.project_code = "" THEN <<>>
                               ELSE <<YearTracking(p, p.emission_results_calculated[1],
                                                   TrackingWidgets(p, a))>>]]

Pass(project, a) == Shown(AfterBaseline(AfterResults(AfterTables(project))), a)

\* The tabs of the years 2..MaxTrackedYear for the session project p, the
\* widgets of year y holding later[y] before the pass.
LaterYearTabs(p, later) ==
    [y \in 2..MaxTrackedYear |->
        [actuals |-> TrackingWidgetsOfYear(p, later[y], y),
         tracking |-> IF p.project_code = "" THEN <<>>
                      ELSE <<YearTracking(p, p.emission_results_calculated[1],
                                          TrackingWidgetsOfYear(p, later[y], y))>>]]

\* The later tabs before anything was typed or loaded.
NoLaterYears == [y \in 2..MaxTrackedYear |-> NoActuals]

\* The page after a pass over the session project and the given widget values.
RunPassYears(project, a, later) ==
    \E p \in {AfterBaseline(AfterResults(AfterTables(project)))} :
        \E shown \in {Shown(p, a)} :
            /\ co2_project' = shown.project
            /\ co2_actuals' = shown.actuals
            /\ co2_results' = shown.results
            /\ co2_later_years' = LaterYearTabs(p, later)

\* A pass in which the widgets of the later years are left as they are.
RunPass(project, a) ==
    RunPassYears(project, a, [y \in 2..MaxTrackedYear |-> co2_later_years[y].actuals])

ProjectNames == {"N1"}

\* Project codes generate_project_id can produce (the uuid suffix makes them fresh).
ProjectCodes == <<"K1", "K2">>

MaxOutputRows == 2

\* Values typed into the widgets of an output row.
OutputEdits == {[ef |-> 0, before |-> 2, after |-> 2]}

\* Values typed into rows of a project whose actuals are tracked.
TrackedOutputEdits ==
    {[ef |-> 1, before |-> 2, after |-> 2], [ef |-> 2, before |-> 4, after |-> 5]}

InputEdits ==
    {[ef |-> 1, before |-> 20, after |-> 8], [ef |-> 1, before |-> 10, after |-> 6],
     [ef |-> 2, before |-> 10, after |-> 8]}

AmpEdits == {<<10, 10>>, <<4, 5>>}

\* "New"
NewCo2Project ==
    /\ RunPass(DefaultProject, co2_actuals)
    /\ UNCHANGED co2_projects

\* A pass in which the user typed the general information (project name and
\* the other required fields).
EditGeneralInfo ==
    /\ \E name \in ProjectNames :
           RunPass([co2_project EXCEPT !.project_name = name], co2_actuals)
    /\ UNCHANGED co2_projects

\* The method radio, enabled whether the project is loaded or not.
SelectMethodWhenLoaded ==
    /\ \E m \in {"absolute", "specific"} :
           RunPass([co2_project EXCEPT !.calculation_method = m], co2_actuals)
    /\ UNCHANGED co2_projects

\* The method radio, enabled while the project is not loaded from the database.
SelectMethod ==
    /\ ~co2_project.is_loaded_from_db
    /\ \E m \in {"absolute", "specific"} :
           RunPass([co2_project EXCEPT !.calculation_method = m], co2_actuals)
    /\ UNCHANGED co2_projects

\* The row a table's widgets give after the user edited them; the specific
\* fields of an output row are disabled.
EditedRow(row, e, calculation_method, is_output) ==
    IF calculation_method = "absolute" THEN AbsRow(e.ef, e.before, e.after)
    ELSE IF is_output THEN With(row, "ef", e.ef)
    ELSE SpecRow(e.ef, e.before, e.after)

EditOutputRow(edits) ==
    /\ \E i \in 1..Len(co2_project.output_data), e \in edits :
           RunPass([co2_project EXCEPT !.output_data[i] =
                       EditedRow(@, e, co2_project.calculation_method, TRUE)],
                   co2_actuals)
    /\ UNCHANGED co2_projects

EditInputRow ==
    /\ \E i \in 1..Len(co2_project.input_data), e \in InputEdits :
           RunPass([co2_project EXCEPT !.input_data[i] =
                       EditedRow(@, e, co2_project.calculation_method, FALSE)],
                   co2_actuals)
    /\ UNCHANGED co2_projects

\* The AMP inputs, drawn in specific mode.
EditAmp ==
    /\ co2_project.calculation_method = "specific"
    /\ \E amp \in AmpEdits :
           RunPass([co2_project EXCEPT !.amp_before = amp[1], !.amp_after = amp[2]],
                   co2_actuals)
    /\ UNCHANGED co2_projects

\* The row "Add Row" appends to the output table.
NewOutputRow(calculation_method) ==
    IF calculation_method = "absolute" THEN AbsRow(0, 0, 0)
    ELSE With(SpecRow(0, 1, 1), "abs_before", 1)

\* "Add Row" of the output table: the tables are drawn, the row is appended
\* and the page runs again.
AddOutputRow ==
    /\ Len(co2_project.output_data) < MaxOutputRows
    /\ RunPass([AfterTables(co2_project) EXCEPT !.output_data =
                   Append(@, NewOutputRow(co2_project.calculation_method))],
               co2_actuals)
    /\ UNCHANGED co2_projects

\* The delete button of an output row other than the first.
DeleteOutputRow ==
    /\ \E i \in 2..Len(co2_project.output_data) :
           RunPass([co2_project EXCEPT !.output_data =
                       SubSeq(@, 1, i - 1) \o SubSeq(@, i + 1, Len(@))],
                   co2_actuals)
    /\ UNCHANGED co2_projects

\* The columns of a projects record that Load reads back.
ProjectRow(p) ==
    [project_code |-> p.project_code, project_name |-> p.project_name,
     input_data |-> p.input_data, output_data |-> p.output_data,
     amp_before |-> p.amp_before, amp_after |-> p.amp_after,
     calculation_method |-> p.calculation_method]

\* The codes not in use: neither stored nor shown in the session.
UnusedCodes ==
    {k \in 1..Len(ProjectCodes) :
        ProjectCodes[k] \notin
            ({co2_project.project_code} \cup {r.project_code : r \in co2_projects})}

\* primary_output_before / primary_output_after as Save and Load set them.
PrimaryOutput(output_data, calculation_method, when) ==
    IF calculation_method = "absolute"
    THEN Get(output_data[1], IF when = "before" THEN "abs_before" ELSE "abs_after", 0)
    ELSE Get(output_data[1], IF when = "before" THEN "spec_before" ELSE "spec_after", 1)

\* Save up to the database write: the output rows are pinned, the primary
\* output is taken from the first output row, and a project that is not loaded
\* from the database gets a new code (which one is immaterial: the first).
BeforeInsert(p) ==
    LET output_data == enforce_specific_rules(p.output_data, p.calculation_method, "output")
    IN [p EXCEPT
           !.output_data = output_data,
           !.primary_output_before = PrimaryOutput(output_data, p.calculation_method, "before"),
           !.primary_output_after = PrimaryOutput(output_data, p.calculation_method, "after"),
           !.project_code =
               IF p.project_code = "" \/ ~p.is_loaded_from_db
               THEN ProjectCodes[CHOOSE k \in UnusedCodes : \A j \in UnusedCodes : k <= j]
               ELSE @]

\* Another stored project has the name of p.
NameTaken(p) ==
    \E r \in co2_projects :
        r.project_name = p.project_name /\ r.project_code # p.project_code

\* "Save".  A blank required field stops the handler at once.  Else another
\* record of the same name stops the write (the session keeps what was set
\* before it); else the record of this code is replaced and the page runs again.
SaveCo2Project ==
    IF co2_project.project_name = ""
    THEN /\ RunPass(co2_project, co2_actuals)
         /\ UNCHANGED co2_projects
    ELSE /\ (co2_project.project_code # "" /\ co2_project.is_loaded_from_db)
                \/ UnusedCodes # {}
         /\ \E p \in {BeforeInsert(co2_project)} :
                IF NameTaken(p)
                THEN /\ RunPass(p, co2_actuals)
                     /\ UNCHANGED co2_projects
                ELSE /\ co2_projects' =
                            {r \in co2_projects : r.project_code # p.project_code}
                                \cup {ProjectRow(p)}
                     /\ RunPass([p EXCEPT !.is_loaded_from_db = TRUE], co2_actuals)

\* The session dictionary Load builds from a record.
LoadedProject(r) ==
    LET input_data == [i \in 1..Len(r.input_data) |-> normalize_data_row(r.input_data[i])]
        output_data ==
            enforce_specific_rules(
                [i \in 1..Len(r.output_data) |-> normalize_data_row(r.output_data[i])],
                r.calculation_method, "output")
    IN [project_code |-> r.project_code, project_name |-> r.project_name,
        input_data |-> input_data, output_data |-> output_data,
        amp_before |-> r.amp_before, amp_after |-> r.amp_after,
        calculation_method |-> r.calculation_method, is_loaded_from_db |-> TRUE,
        primary_output_before |-> PrimaryOutput(output_data, r.calculation_method, "before"),
        primary_output_after |-> PrimaryOutput(output_data, r.calculation_method, "after"),
        emission_results_calculated |-> NoBaseline]

\* "Load" of the selected project.
LoadCo2Project ==
    /\ \E r \in co2_projects : RunPass(LoadedProject(r), co2_actuals)
    /\ UNCHANGED co2_projects

\* Actual values equal to the project's planned "after" quantities and AMP.
PlannedActuals(p) ==
    [method |-> p.calculation_method,
     input |-> [i \in 1..Len(p.input_data) |->
                   Get(p.input_data[i],
                       IF p.calculation_method = "absolute" THEN "abs_after"
                       ELSE "spec_after", 0)],
     output |-> IF p.calculation_method = "absolute"
                THEN [i \in 1..Len(p.output_data) |-> Get(p.output_data[i], "abs_after", 0)]
                ELSE <<>>,
     amp |-> IF p.calculation_method = "specific" THEN p.amp_after ELSE 0]

ActualValues == {0, 4, 8}

\* The same actual value typed into every widget of the year.
UniformActuals(p, v) ==
    [method |-> p.calculation_method,
     input |-> [i \in 1..Len(p.input_data) |-> v],
     output |-> IF p.calculation_method = "absolute"
                THEN [i \in 1..Len(p.output_data) |-> v] ELSE <<>>,
     amp |-> IF p.calculation_method = "specific" THEN v ELSE 0]

\* The value v typed into the input widgets of the year, 0 into the others.
InputOnlyActuals(p, v) ==
    [UniformActuals(p, 0) EXCEPT !.input = [i \in 1..Len(p.input_data) |-> v]]

\* A pass in which the user typed the actual values of year 1.
EditActuals ==
    /\ co2_project.project_code # ""
    /\ \E a \in {PlannedActuals(co2_project)}
                   \cup {UniformActuals(co2_project, v) : v \in ActualValues}
                   \cup {InputOnlyActuals(co2_project, v) : v \in ActualValues} :
           RunPass(co2_project, a)
    /\ UNCHANGED co2_projects

\* Values typed into the widgets of a later year.
LaterActualValues == {0, 8}

\* A pass in which the user typed the actual values of a later year.
EditLaterActuals ==
    /\ co2_project.project_code # ""
    /\ \E year \in 2..MaxTrackedYear, v \in LaterActualValues :
           RunPassYears(co2_project, co2_actuals,
                        [y \in 2..MaxTrackedYear |->
                            IF y = year THEN UniformActuals(co2_project, v)
                            ELSE co2_later_years[y].actuals])
    /\ UNCHANGED co2_projects

\* The widgets of the tab of the year.
ActualsOfYear(year) == IF year = 1 THEN co2_actuals ELSE co2_later_years[year].actuals

\* The save buttons of the tab of a year.  INSERT OR REPLACE finds no PRIMARY KEY
\* or UNIQUE conflict (the only key is the AUTOINCREMENT id, which the statement
\* does not give), so every save adds a row; the handler then reruns the page.
LedgerRoom == Len(project_actuals) + Len(amp_actuals_tracking) < MaxLedgerRows

\* A save that writes the value under every year of the project.
SaveInputActualAllYears ==
    /\ co2_project.project_code # ""
    /\ LedgerRoom
    /\ \E i \in 1..Len(co2_project.input_data), year \in 1..MaxTrackedYear :
           \E row \in {[project_code |-> co2_project.project_code,
                         section_type |-> "input", row_index |-> i - 1,
                         year_number |-> year,
                         absolute_value |->
                             IF co2_project.calculation_method = "absolute"
                             THEN Some(ActualsOfYear(year).input[i]) ELSE None,
                         specific_value |->
                             IF co2_project.calculation_method = "absolute"
                             THEN None ELSE Some(ActualsOfYear(year).input[i])]} :
               project_actuals' =
                   Append([k \in 1..Len(project_actuals) |->
                              IF /\ project_actuals[k].project_code = row.project_code
                                 /\ project_actuals[k].section_type = "input"
                                 /\ project_actuals[k].row_index = row.row_index
                              THEN [row EXCEPT !.year_number =
                                                   project_actuals[k].year_number]
                              ELSE project_actuals[k]],
                          row)
    /\ RunPass(co2_project, co2_actuals)
    /\ UNCHANGED <<co2_projects, amp_actuals_tracking>>

SaveInputActual ==
    /\ co2_project.project_code # ""
    /\ LedgerRoom
    /\ \E i \in 1..Len(co2_project.input_data), year \in 1..MaxTrackedYear :
           project_actuals' =
               Append(project_actuals,
                      [project_code |-> co2_project.project_code,
                       section_type |-> "input", row_index |-> i - 1, year_number |-> year,
                       absolute_value |->
                           IF co2_project.calculation_method = "absolute"
                           THEN Some(ActualsOfYear(year).input[i]) ELSE None,
                       specific_value |->
                           IF co2_project.calculation_method = "absolute"
                           THEN None ELSE Some(ActualsOfYear(year).input[i])])
    /\ RunPass(co2_project, co2_actuals)
    /\ UNCHANGED <<co2_projects, amp_actuals_tracking>>

SaveOutputActual ==
    /\ co2_project.project_code # ""
    /\ LedgerRoom
    /\ \E i \in 1..Len(co2_project.output_data), year \in 1..MaxTrackedYear :
           project_actuals' =
               Append(project_actuals,
                      [project_code |-> co2_project.project_code,
                       section_type |-> "output", row_index |-> i - 1, year_number |-> year,
                       absolute_value |->
                           IF co2_project.calculation_method = "absolute"
                           THEN Some(ActualsOfYear(year).output[i])
                           ELSE IF i = 1 THEN Some(1) ELSE None,
                       specific_value |->
                           IF co2_project.calculation_method = "absolute"
                           THEN None ELSE Some(1)])
    /\ RunPass(co2_project, co2_actuals)
    /\ UNCHANGED <<co2_projects, amp_actuals_tracking>>

SaveAmpActual ==
    /\ co2_project.project_code # ""
    /\ co2_project.calculation_method = "specific"
    /\ LedgerRoom
    /\ \E year \in 1..MaxTrackedYear :
           amp_actuals_tracking' =
               Append(amp_actuals_tracking,
                      [project_code |-> co2_project.project_code, year_number |-> year,
                       amp_value |-> ActualsOfYear(year).amp])
    /\ RunPass(co2_project, co2_actuals)
    /\ UNCHANGED <<co2_projects, project_actuals>>

InitLedger ==
    /\ project_actuals = <<>>
    /\ amp_actuals_tracking = <<>>

InitCO2 ==
    /\ co2_project = Pass(DefaultProject, NoActuals).project
    /\ co2_actuals = Pass(DefaultProject, NoActuals).actuals
    /\ co2_results = Pass(DefaultProject, NoActuals).results
    /\ co2_later_years = LaterYearTabs(DefaultProject, NoLaterYears)
    /\ co2_projects = {}
    /\ InitLedger

\* Sessions an earlier run saved: an absolute and a specific project.
AbsoluteExample ==
    [DefaultProject EXCEPT !.project_code = "K1", !.project_name = "N1",
                           !.input_data = <<AbsRow(1, 10, 6)>>,
                           !.output_data = <<AbsRow(1, 2, 2)>>]

SpecificExample ==
    [DefaultProject EXCEPT !.project_code = "K2", !.project_name = "N2",
                           !.calculation_method = "specific",
                           !.input_data = <<SpecRow(1, 10, 6)>>,
                           !.output_data = <<With(SpecRow(1, 1, 1), "abs_before", 1)>>,
                           !.amp_before = 10, !.amp_after = 10]

StoredCo2Projects == {ProjectRow(AbsoluteExample), ProjectRow(SpecificExample)}

(***************************************************************************)
NextNpv ==
    \/ ChooseNpvInput /\ UNCHANGED <<maccVars, fuelVars, portfolioVars, co2Vars, ledgerVars>>
    \/ ApplyNpv /\ UNCHANGED <<maccVars, fuelVars, portfolioVars, co2Vars, ledgerVars>>

InitNpvPage ==
    /\ IdleNpv
    /\ InitMacc
    /\ InitFuel
    /\ InitPortfolio
    /\ InitCO2

SpecNpv == InitNpvPage /\ [][NextNpv]_vars

\* calculate_npv_detailed applied to option records.
NextCashflow ==
    \/ ChooseOption /\ UNCHANGED <<maccVars, fuelVars, portfolioVars, co2Vars, ledgerVars>>
    \/ ApplyCashflows /\ UNCHANGED <<maccVars, fuelVars, portfolioVars, co2Vars, ledgerVars>>

SpecCashflow == InitNpvPage /\ [][NextCashflow]_vars

NextMacc ==
    \/ NewProject /\ UNCHANGED <<npvVars, fuelVars, portfolioVars, co2Vars, ledgerVars>>
    \/ EditOptions(ScenarioInputs \X ScenarioInputs)
           /\ UNCHANGED <<npvVars, fuelVars, portfolioVars, co2Vars, ledgerVars>>
    \/ CalculateMacc /\ UNCHANGED <<npvVars, fuelVars, portfolioVars, co2Vars, ledgerVars>>

InitMaccPage ==
    /\ InitMacc
    /\ IdleNpv
    /\ InitFuel
    /\ InitPortfolio
    /\ InitCO2

SpecMacc == InitMaccPage /\ [][NextMacc]_vars

NextFuel ==
    \/ NewCalc /\ LeaveDelete /\ UNCHANGED <<maccVars, npvVars, portfolioVars, co2Vars, ledgerVars>>
    \/ EditFuelForm /\ LeaveDelete /\ UNCHANGED <<maccVars, npvVars, portfolioVars, co2Vars, ledgerVars>>
    \/ GenerateCalcId /\ LeaveDelete /\ UNCHANGED <<maccVars, npvVars, portfolioVars, co2Vars, ledgerVars>>
    \/ SaveCalculation /\ LeaveDelete /\ UNCHANGED <<maccVars, npvVars, portfolioVars, co2Vars, ledgerVars>>
    \/ LoadCalculation /\ LeaveDelete /\ UNCHANGED <<maccVars, npvVars, portfolioVars, co2Vars, ledgerVars>>

InitFuelPage ==
    /\ InitFuel
    /\ InitMacc
    /\ IdleNpv
    /\ InitPortfolio
    /\ InitCO2

SpecFuel == InitFuelPage /\ [][NextFuel]_vars

\* The fuel calculator with saves that succeed and saves that fail.
NextFuelSave ==
    \/ EditFuelForm /\ LeaveDelete /\ UNCHANGED <<maccVars, npvVars, portfolioVars, co2Vars, ledgerVars>>
    \/ GenerateCalcId /\ LeaveDelete /\ UNCHANGED <<maccVars, npvVars, portfolioVars, co2Vars, ledgerVars>>
    \/ SaveCalculation /\ LeaveDelete /\ UNCHANGED <<maccVars, npvVars, portfolioVars, co2Vars, ledgerVars>>
    \/ SaveCalculationFails /\ LeaveDelete
           /\ UNCHANGED <<maccVars, npvVars, portfolioVars, co2Vars, ledgerVars>>

SpecFuelSave == InitFuelPage /\ [][NextFuelSave]_vars

\* Record Management on a database an earlier session filled: F1 saved from the
\* override form, F2 from the petcoke form.
StoredFuelRecords ==
    StoreAfterSave(
        StoreAfterSave(EmptyFuelStore,
                       SaveData(FormPass([OverrideForm EXCEPT !.unique_code = "F1"]))),
        SaveData(FormPass([PetcokeForm EXCEPT !.unique_code = "F2"])))

NextFuelRecords ==
    \/ LoadCalculation /\ LeaveDelete
           /\ UNCHANGED <<maccVars, npvVars, portfolioVars, co2Vars, ledgerVars>>
    \/ EditFuelForm /\ LeaveDelete
           /\ UNCHANGED <<maccVars, npvVars, portfolioVars, co2Vars, ledgerVars>>
    \/ SaveCalculation /\ LeaveDelete
           /\ UNCHANGED <<maccVars, npvVars, portfolioVars, co2Vars, ledgerVars>>
    \/ PressDelete /\ UNCHANGED <<maccVars, npvVars, portfolioVars, co2Vars, ledgerVars>>
    \/ ConfirmDelete /\ UNCHANGED <<maccVars, npvVars, portfolioVars, co2Vars, ledgerVars>>

InitFuelRecordsPage ==
    /\ calc = DefaultCalc
    /\ HoldsFuelStore(StoredFuelRecords)
    /\ fuel_delete = NoDelete
    /\ fuel_save_result = "not called"
    /\ InitMacc
    /\ IdleNpv
    /\ InitPortfolio
    /\ InitCO2

SpecFuelRecords == InitFuelRecordsPage /\ [][NextFuelRecords]_vars

\* The MACC calculator and the strategy dashboard over the project store.
NextPortfolio ==
    \/ NewProject /\ LeaveDashboard /\ UNCHANGED <<npvVars, fuelVars, npvStoreVars, deleteVars, strategyVars, co2Vars, ledgerVars>>
    \/ EditProjectInfo /\ LeaveDashboard /\ UNCHANGED <<npvVars, fuelVars, npvStoreVars, deleteVars, strategyVars, co2Vars, ledgerVars>>
    \/ EditOptions(PortfolioPairs) /\ LeaveDashboard
           /\ UNCHANGED <<npvVars, fuelVars, npvStoreVars, deleteVars, strategyVars, co2Vars, ledgerVars>>
    \/ CalculateMacc /\ LeaveDashboard /\ UNCHANGED <<npvVars, fuelVars, npvStoreVars, deleteVars, strategyVars, co2Vars, ledgerVars>>
    \/ GenerateProjectId /\ LeaveDashboard /\ UNCHANGED <<npvVars, fuelVars, npvStoreVars, deleteVars, strategyVars, co2Vars, ledgerVars>>
    \/ SaveProject /\ LeaveDashboard
           /\ UNCHANGED <<npvVars, fuelVars, deleteVars, strategyVars, co2Vars, ledgerVars>>
    \/ ViewDashboard /\ UNCHANGED <<maccVars, npvVars, fuelVars, npvStoreVars, deleteVars, strategyVars, co2Vars, ledgerVars>>

InitPortfolioPage ==
    /\ InitMacc
    /\ IdleNpv
    /\ calc = DefaultCalc
    /\ HoldsFuelStore(StoredFuelCalculations)
    /\ fuel_delete = NoDelete
    /\ fuel_save_result = "not called"
    /\ InitPortfolio
    /\ InitCO2

SpecPortfolio == InitPortfolioPage /\ [][NextPortfolio]_vars

\* Project management of the MACC page: New, Generate, Save, Delete with its
\* confirmation, over a database that holds one project.
NextMaccDelete ==
    \/ NewProject /\ UNCHANGED <<npvVars, fuelVars, npvStoreVars, deleteVars, strategyVars, macc_chart,
                                  dashboard_error, co2Vars, ledgerVars>>
    \/ EditProjectInfo /\ UNCHANGED <<npvVars, fuelVars, npvStoreVars, deleteVars, strategyVars, macc_chart,
                                       dashboard_error, co2Vars, ledgerVars>>
    \/ GenerateProjectId /\ UNCHANGED <<npvVars, fuelVars, npvStoreVars, deleteVars, strategyVars, macc_chart,
                                         dashboard_error, co2Vars, ledgerVars>>
    \/ SaveProject /\ UNCHANGED <<npvVars, fuelVars, deleteVars, strategyVars, macc_chart,
                                   dashboard_error, co2Vars, ledgerVars>>
    \/ PressDeleteProject /\ UNCHANGED <<npvVars, fuelVars, strategyVars, macc_chart, dashboard_error,
                                          co2Vars, ledgerVars>>
    \/ ConfirmDeleteProject /\ UNCHANGED <<npvVars, fuelVars, strategyVars, macc_chart, dashboard_error,
                                            co2Vars, ledgerVars>>
    \/ CancelDeleteProject /\ UNCHANGED <<npvVars, fuelVars, strategyVars, macc_chart, dashboard_error,
                                           co2Vars, ledgerVars>>

InitMaccDeletePage ==
    /\ InitMacc
    /\ IdleNpv
    /\ InitFuel
    /\ InitCO2
    /\ npv_projects = {StoredMaccProject}
    /\ npv_order = <<StoredMaccProject.id>>
    /\ delete_confirmation = ""
    /\ delete_picked = ""
    /\ macc_chart = <<>>
    /\ dashboard_error = FALSE
    /\ InitStrategy

SpecMaccDelete == InitMaccDeletePage /\ [][NextMaccDelete]_vars

\* Dashboard management of the strategy dashboard.
NextStrategy ==
    \/ NewDashboard /\ UNCHANGED <<maccVars, npvVars, fuelVars, npvStoreVars, deleteVars,
                                    macc_chart, dashboard_error, co2Vars, ledgerVars>>
    \/ SelectBaseline /\ UNCHANGED <<maccVars, npvVars, fuelVars, npvStoreVars, deleteVars,
                                      macc_chart, dashboard_error, co2Vars, ledgerVars>>
    \/ LoadDashboard /\ UNCHANGED <<maccVars, npvVars, fuelVars, npvStoreVars, deleteVars,
                                     macc_chart, dashboard_error, co2Vars, ledgerVars>>
    \/ PressSaveDashboard /\ UNCHANGED <<maccVars, npvVars, fuelVars, npvStoreVars, deleteVars,
                                          macc_chart, dashboard_error, co2Vars, ledgerVars>>
    \/ PressUpdateDashboard /\ UNCHANGED <<maccVars, npvVars, fuelVars, npvStoreVars, deleteVars,
                                            macc_chart, dashboard_error, co2Vars, ledgerVars>>
    \/ ConfirmSaveDashboard /\ UNCHANGED <<maccVars, npvVars, fuelVars, npvStoreVars, deleteVars,
                                            macc_chart, dashboard_error, co2Vars, ledgerVars>>
    \/ CancelSaveDashboard /\ UNCHANGED <<maccVars, npvVars, fuelVars, npvStoreVars, deleteVars,
                                           macc_chart, dashboard_error, co2Vars, ledgerVars>>

SpecStrategy == InitPortfolioPage /\ [][NextStrategy]_vars

\* The CO2 project calculator: projects, methods, output rows, Save and Load.
NextCO2 ==
    \/ NewCo2Project /\ UNCHANGED <<maccVars, npvVars, fuelVars, portfolioVars, ledgerVars>>
    \/ EditGeneralInfo /\ UNCHANGED <<maccVars, npvVars, fuelVars, portfolioVars, ledgerVars>>
    \/ SelectMethod /\ UNCHANGED <<maccVars, npvVars, fuelVars, portfolioVars, ledgerVars>>
    \/ EditOutputRow(OutputEdits) /\ UNCHANGED <<maccVars, npvVars, fuelVars, portfolioVars, ledgerVars>>
    \/ AddOutputRow /\ UNCHANGED <<maccVars, npvVars, fuelVars, portfolioVars, ledgerVars>>
    \/ DeleteOutputRow /\ UNCHANGED <<maccVars, npvVars, fuelVars, portfolioVars, ledgerVars>>
    \/ SaveCo2Project /\ UNCHANGED <<maccVars, npvVars, fuelVars, portfolioVars, ledgerVars>>
    \/ LoadCo2Project /\ UNCHANGED <<maccVars, npvVars, fuelVars, portfolioVars, ledgerVars>>

InitCO2Page ==
    /\ InitCO2
    /\ InitMacc
    /\ IdleNpv
    /\ InitFuel
    /\ InitPortfolio

SpecCO2 == InitCO2Page /\ [][NextCO2]_vars

\* The actuals tracker over two stored projects.
NextTracking ==
    \/ LoadCo2Project /\ UNCHANGED <<maccVars, npvVars, fuelVars, portfolioVars, ledgerVars>>
    \/ EditInputRow /\ UNCHANGED <<maccVars, npvVars, fuelVars, portfolioVars, ledgerVars>>
    \/ EditOutputRow(TrackedOutputEdits)
           /\ UNCHANGED <<maccVars, npvVars, fuelVars, portfolioVars, ledgerVars>>
    \/ EditAmp /\ UNCHANGED <<maccVars, npvVars, fuelVars, portfolioVars, ledgerVars>>
    \/ EditActuals /\ UNCHANGED <<maccVars, npvVars, fuelVars, portfolioVars, ledgerVars>>

InitTrackingPage ==
    /\ co2_project = Pass(DefaultProject, NoActuals).project
    /\ co2_actuals = Pass(DefaultProject, NoActuals).actuals
    /\ co2_results = Pass(DefaultProject, NoActuals).results
    /\ co2_later_years = LaterYearTabs(DefaultProject, NoLaterYears)
    /\ co2_projects = StoredCo2Projects
    /\ InitLedger
    /\ InitMacc
    /\ IdleNpv
    /\ InitFuel
    /\ InitPortfolio

SpecTracking == InitTrackingPage /\ [][NextTracking]_vars

\* Saving the actuals of the tracked years of the stored projects.
NextLedger ==
    \/ LoadCo2Project /\ UNCHANGED <<maccVars, npvVars, fuelVars, portfolioVars, ledgerVars>>
    \/ EditActuals /\ UNCHANGED <<maccVars, npvVars, fuelVars, portfolioVars, ledgerVars>>
    \/ EditLaterActuals /\ UNCHANGED <<maccVars, npvVars, fuelVars, portfolioVars, ledgerVars>>
    \/ SaveInputActual /\ UNCHANGED <<maccVars, npvVars, fuelVars, portfolioVars>>
    \/ SaveOutputActual /\ UNCHANGED <<maccVars, npvVars, fuelVars, portfolioVars>>
    \/ SaveAmpActual /\ UNCHANGED <<maccVars, npvVars, fuelVars, portfolioVars>>

SpecLedger == InitTrackingPage /\ [][NextLedger]_vars

(***************************************************************************)
(* Properties of the MACC calculator and of the NPV primitives.            *)
(***************************************************************************)
\* A calculation that stored its results in the session.
CalculatedMacc == CalculateMacc /\ ~macc_error'

\* C1: whenever Calculate MACC completes, the stored MAC times the stored total
\* CO2 difference is NPV(before) - NPV(after) (not the reverse) when that total is
\* not 0, and for scenario A (own 1000, 100 t/yr) against scenario B (own 500,
\* 50 t/yr), lifetime 1, discount 0 %, tracking 1, the NPVs are -1000 and -500
\* (net -500), the annual and total differences are 50 and the MAC is -10.
C1_MacSignConvention ==
    [][CalculatedMacc =>
        /\ macc'.total_co2_diff # 0 =>
              RMul(macc'.calculated_mac, RInt(macc'.total_co2_diff))
                  = RSub(macc'.calculated_npv1, macc'.calculated_npv2)
        /\ (macc.option1 = ScenarioA /\ macc.option2 = ScenarioB) =>
              /\ macc'.calculated_npv1 = RInt(-1000)
              /\ macc'.calculated_npv2 = RInt(-500)
              /\ macc'.result.annual = <<"5", "0">>
              /\ macc'.total_co2_diff = 50
              /\ macc'.calculated_mac = RInt(-10)]_vars

C1_Witness ==
    /\ macc.option1 = ScenarioA
    /\ macc.option2 = ScenarioB
    /\ macc.result.annual = <<"5", "0">>
    /\ macc.total_co2_diff = 50
    /\ macc.calculated_mac = RInt(-10)

\* The total CO2 difference of the two options in the form, taken from the fields.
FormTotalCo2Diff ==
    (macc.option1.co2_reduction - macc.option2.co2_reduction)
        * Max3(macc.option1.emission_tracking_period,
               macc.option2.emission_tracking_period, 1)

\* C4: for every pair of scenarios, Calculate MACC raises no error; when the total
\* CO2 difference is 0 the stored MAC is exactly 0, and otherwise it is
\* (NPV(before) - NPV(after)) / total CO2 difference.
C4_ZeroCo2DiffGivesZeroMac ==
    [][CalculateMacc =>
        /\ ~macc_error'
        /\ macc'.total_co2_diff = FormTotalCo2Diff
        /\ FormTotalCo2Diff = 0 => macc'.calculated_mac = RZero
        /\ FormTotalCo2Diff # 0 =>
              macc'.calculated_mac
                  = RDiv(RSub(macc'.calculated_npv1, macc'.calculated_npv2),
                         RInt(FormTotalCo2Diff))]_vars

\* Reference evaluation of sum_t cf[t] / (1 + r)^t by Horner's rule.
RECURSIVE HornerNpv(_, _)
HornerNpv(r, cf) ==
    IF cf = <<>> THEN RZero
    ELSE IF Len(cf) = 1 THEN cf[1]
    ELSE RAdd(cf[1], RDiv(HornerNpv(r, Tail(cf)), RAdd(ROne, r)))

RECURSIVE PlainSum(_)
PlainSum(s) == IF s = <<>> THEN 0 ELSE Head(s) + PlainSum(Tail(s))

\* C2 as amended: calculate_npv(rate, cf) is sum_t cf[t] / (1 + rate)^t of the
\* rate it is handed, the discounting of calculate_npv_detailed is the same sum
\* at rate discount_rate_pct / 100, so the two agree when calculate_npv is
\* handed the fraction discount_rate_pct / 100; at 0 % both are the plain sum
\* (200 for [-1000, 300, 300, 300, 300]).
C2_NpvAgreeOnFractionRate ==
    npv_out.done =>
        /\ npv_out.standalone = HornerNpv(npv_out.arg, AsFloats(npv_in.cashflows))
        /\ npv_out.detailed = HornerNpv(Pct(npv_in.rate_pct), AsFloats(npv_in.cashflows))
        /\ npv_out.arg = Pct(npv_in.rate_pct) => npv_out.standalone = npv_out.detailed
        /\ npv_in.rate_pct = 0 =>
              /\ npv_out.standalone = RInt(PlainSum(npv_in.cashflows))
              /\ npv_out.detailed = RInt(PlainSum(npv_in.cashflows))
        /\ (npv_in.rate_pct = 0 /\ npv_in.cashflows = <<-1000, 300, 300, 300, 300>>) =>
              npv_out.standalone = RInt(200)

C2_Witness ==
    /\ npv_out.done
    /\ npv_in.rate_pct = 100
    /\ npv_in.cashflows = <<-1000, 300>>
    /\ npv_out.arg = Pct(100)
    /\ npv_out.standalone = RInt(-850)
    /\ npv_out.detailed = RInt(-850)

\* C2 as stated: for the same series and the same percentage rate the two
\* implementations return the same value.
C2_SamePercentageSameValue ==
    (npv_out.done /\ npv_out.arg = RInt(npv_in.rate_pct)) =>
        npv_out.standalone = npv_out.detailed

(***************************************************************************)
(* Properties of the fuel and energy calculator and of its store.          *)
(***************************************************************************)
\* The session holds the same-year example: baseline = previous = 1000 t of
\* Scope 1, growth factor 1.5, a 20 % Scope 1 target.
HoldsSameYearExample ==
    [calc EXCEPT !.unique_code = ""] = FormPass(SameYearForm)

\* C3: for every scope, BAU = previous emissions x (target production / previous
\* year production) (for a non-zero previous-year production), target = baseline
\* x (1 - reduction_pct / 100), avoided = BAU - target, and the BAU intensity is
\* the previous-year intensity; for baseline = previous = 1000, growth factor 1.5
\* and a 20 % target: BAU 1500, target 800, avoided 700.
C3_BauTargetAvoided ==
    /\ \A scope \in ScopeSet :
          LET previous == previous_emissions_by_scope(calc)[scope]
              baseline == baseline_emissions_by_scope(calc)[scope]
              bau == bau_emissions_by_scope(calc)[scope]
              target == target_emissions_by_scope(calc)[scope]
              avoided == reduction_quantity_by_scope(calc)[scope]
          IN /\ previous.n = 0 => bau = RZero
             /\ (previous.n # 0 /\ calc.previous_year_production.n # 0) =>
                   RMul(bau, calc.previous_year_production)
                       = RMul(previous, target_production(calc))
             /\ RMul(target, RInt(100))
                   = RMul(baseline, RSub(RInt(100), calc.reductions_pct[scope]))
             /\ RAdd(avoided, target) = bau
             /\ bau_specific_by_scope(calc)[scope] = previous_specific_by_scope(calc)[scope]
             /\ calc.previous_year_production.n # 0 =>
                   RMul(bau_specific_by_scope(calc)[scope], calc.previous_year_production)
                       = previous
    /\ HoldsSameYearExample =>
          /\ production_growth_factor(calc) = Rat(3, 2)
          /\ bau_emissions_by_scope(calc)["Scope 1"] = RInt(1500)
          /\ target_emissions_by_scope(calc)["Scope 1"] = RInt(800)
          /\ reduction_quantity_by_scope(calc)["Scope 1"] = RInt(700)

C3_Witness ==
    /\ HoldsSameYearExample
    /\ baseline_emissions_by_scope(calc)["Scope 1"] = RInt(1000)
    /\ previous_emissions_by_scope(calc)["Scope 1"] = RInt(1000)
    /\ reduction_quantity_by_scope(calc)["Scope 1"] = RInt(700)

\* C5: wherever baseline emissions are derived, they are the inventory sums when
\* previous_year equals baseline_year and the overrides otherwise: per scope in
\* the fuel calculator summary, in total on the strategy dashboard for every
\* stored calculation.
C5_BaselineFollowsYearEquality ==
    /\ \A scope \in ScopeSet :
          baseline_emissions_by_scope(calc)[scope]
              = IF calc.previous_year = calc.baseline_year
                THEN previous_emissions_by_scope(calc)[scope]
                ELSE calc.baseline_emissions_input[KeyOfScope(scope)]
    /\ \A r \in calculations :
          r.previous_year = r.baseline_year =>
              dashboard_baseline_emission(r.unique_code)
                  = dashboard_previous_emission(r.unique_code)

\* A step that saved a calculation.
SavedStep == fuel_seq' # fuel_seq

\* C6: after a save for identifier c, load_calculation_from_db(c) returns exactly
\* the material rows in the saved order, the reduction percentages and the
\* baseline overrides (0 where none was passed) of that save, also when c was
\* saved before; no other step changes what is loaded for any identifier.
C6_LoadReturnsLastSave ==
    [][IF SavedStep
       THEN \A code \in FuelCodes :
               IF calc.unique_code = code
               THEN LET sd == SaveData(calc)
                        loaded == load_calculation_from_db(code)'
                    IN /\ loaded.found
                       /\ loaded.baseline_rows = sd.materials_baseline
                       /\ \A scope \in ScopeSet :
                             loaded.reductions_pct[scope]
                                 = RMul(sd.reductions[scope], RInt(100))
                       /\ \A k \in ScopeKeys :
                             loaded.baseline_input[k]
                                 = IF \E b \in sd.base_emissions : b.scope = ScopeOfKey(k)
                                   THEN (CHOOSE b \in sd.base_emissions :
                                             b.scope = ScopeOfKey(k)).value
                                   ELSE RZero
               ELSE load_calculation_from_db(code)' = load_calculation_from_db(code)
       ELSE UNCHANGED fuelStoreVars]_vars

\* An identifier saved twice: its record carries id 2, the rows of id 1 are still
\* in the table, and what is loaded holds none of their materials.
C6_Witness ==
    \E r \in calculations :
        /\ calculations = {r}
        /\ r.id = 2
        /\ \E m \in materials_baseline :
              /\ m.calculation_id = 1
              /\ \A i \in 1..Len(load_calculation_from_db(r.unique_code).baseline_rows) :
                    load_calculation_from_db(r.unique_code).baseline_rows[i].name # m.name

\* The derived totals of the summary.
DerivedTotals(c) ==
    [baseline |-> baseline_emissions_by_scope(c),
     previous |-> previous_emissions_by_scope(c),
     bau |-> bau_emissions_by_scope(c),
     target |-> target_emissions_by_scope(c),
     avoided |-> reduction_quantity_by_scope(c),
     target_production |-> target_production(c)]

\* C7: a calculation that is saved, loaded by its identifier and recomputed has the
\* derived totals it had before the save, and its growth rate, reduction
\* percentages, overrides and same-year choice are unchanged.
C7_SaveLoadRoundTrip ==
    [][SavedStep =>
          LET reloaded ==
                  FormPass(LoadedCalc(calc, load_calculation_from_db(calc.unique_code)'))
          IN /\ DerivedTotals(reloaded) = DerivedTotals(calc)
             /\ reloaded.growth_rate_pct = calc.growth_rate_pct
             /\ reloaded.reductions_pct = calc.reductions_pct
             /\ reloaded.baseline_emissions_input = calc.baseline_emissions_input
             /\ reloaded.same_year = calc.same_year]_vars


(***************************************************************************)
(* Properties of the MACC chart.                                           *)
(***************************************************************************)
\* The listing entry of a bar.
ProjectOfBar(bar) == CHOOSE p \in get_saved_macc_projects : p.id = bar.id

RECURSIVE ReductionBefore(_)
ReductionBefore(i) ==
    IF i = 1 THEN 0
    ELSE ReductionBefore(i - 1) + ProjectOfBar(macc_chart[i - 1]).co2_reduction

\* C10: the chart shows each project of the selected portfolio once, in
\* non-decreasing order of mac; the first interval starts at 0, every interval
\* is as wide as its project's co2_reduction, and each interval starts where
\* the previous one ends, that is at the sum of the co2_reduction of the
\* projects before it.
C10_MaccSortedCumulativeIntervals ==
    macc_chart # <<>> =>
        /\ \A i \in 1..Len(macc_chart) :
               /\ \E p \in get_saved_macc_projects : p.id = macc_chart[i].id
               /\ \A j \in 1..Len(macc_chart) :
                      i # j => macc_chart[i].id # macc_chart[j].id
        /\ \A p \in get_saved_macc_projects :
               (\E i \in 1..Len(macc_chart) : macc_chart[i].name = p.name)
                   => \E i \in 1..Len(macc_chart) : macc_chart[i].id = p.id
        /\ \A i \in 2..Len(macc_chart) :
               /\ ~RLess(macc_chart[i].mac, macc_chart[i - 1].mac)
               /\ macc_chart[i].x_start = macc_chart[i - 1].x_end
        /\ macc_chart[1].x_start = 0
        /\ \A i \in 1..Len(macc_chart) :
               /\ macc_chart[i].mac = ProjectOfBar(macc_chart[i]).mac
               /\ macc_chart[i].x_end - macc_chart[i].x_start
                      = ProjectOfBar(macc_chart[i]).co2_reduction
               /\ macc_chart[i].width = ProjectOfBar(macc_chart[i]).co2_reduction
               /\ macc_chart[i].x_start = ReductionBefore(i)

\* A chart of three projects: two of mac -10 removing 50 each, then one of
\* mac 3 removing 100.
C10_Witness ==
    /\ Len(macc_chart) = 3
    /\ macc_chart[1].mac = RInt(-10)
    /\ macc_chart[2].mac = RInt(-10)
    /\ macc_chart[3].mac = RInt(3)
    /\ macc_chart[2].x_start = 50
    /\ macc_chart[3].x_start = 100
    /\ macc_chart[3].x_end = 200


(***************************************************************************)
(* Properties of the CO2 project calculator.                               *)
(***************************************************************************)
\* The row has the three pinned fields and each is 1.0.
Pinned(row) ==
    \A k \in {"spec_before", "spec_after", "abs_before"} : k \in DOMAIN row /\ row[k] = 1

\* C8: under the specific convention every output row of the session project
\* and of every persisted project has spec_before = 1.0, spec_after = 1.0 and
\* abs_before = 1.0, after any sequence of New, method selection, Add Row,
\* row edit, Load and Save.
C8_SpecificOutputRowsPinned ==
    /\ co2_project.calculation_method = "specific"
           => \A i \in 1..Len(co2_project.output_data) : Pinned(co2_project.output_data[i])
    /\ \A r \in co2_projects :
           r.calculation_method = "specific"
               => \A i \in 1..Len(r.output_data) : Pinned(r.output_data[i])

\* A specific project of two output rows is persisted and loaded in the session.
C8_Witness ==
    /\ co2_project.calculation_method = "specific"
    /\ co2_project.is_loaded_from_db
    /\ Len(co2_project.output_data) = MaxOutputRows
    /\ \E r \in co2_projects :
           /\ r.project_code = co2_project.project_code
           /\ r.calculation_method = "specific"
           /\ r.output_data = co2_project.output_data

\* C9: the CO2 reduction of the tracked year is (baseline specific_net_before
\* - specific_net(year)) x reference quantity with the baseline of the
\* emission results, and equals the CO2 reduction of the emission results
\* when the year's actual values equal the planned "after" quantities and AMP.
C9_TrackedYearUsesBaselineFormula ==
    co2_results.tracking # <<>> =>
        /\ co2_results.tracking[1].co2_reduction =
               RMul(RSub(co2_results.emission.sp_net_before,
                         co2_results.tracking[1].sp_net),
                    RInt(co2_results.tracking[1].reference))
        /\ co2_actuals = PlannedActuals(co2_project)
               => co2_results.tracking[1].co2_reduction
                      = co2_results.emission.co2_reduction

\* The factor the claim states: target / previous production, 0 when the previous
\* production is 0.
StatedGrowthFactor(target, previous) ==
    IF previous.n # 0 THEN RDiv(target, previous) ELSE RZero

\* The form holds one of the entered forms (the untouched default form grows
\* 5 % a year over eight years, a target production no 32-bit fraction holds).
FilledIn(c) == c.org_name # ""

\* C11: wherever the production growth factor is computed (the fuel calculator
\* summary and, for every stored calculation, the strategy dashboard), it is
\* target_production / previous_year_production for a non-zero previous-year
\* production and 0 for a zero one, so that the BAU emissions are 0 then.
C11_GrowthFactorZeroOnZeroProduction ==
    /\ FilledIn(calc) =>
          production_growth_factor(calc)
              = StatedGrowthFactor(target_production(calc),
                                   calc.previous_year_production)
    /\ calc.previous_year_production.n = 0 =>
          \A scope \in ScopeSet : bau_emissions_by_scope(calc)[scope] = RZero
    /\ \A r \in calculations :
          /\ dashboard_growth_factor(r.unique_code)
                = StatedGrowthFactor(r.target_production, r.previous_year_production)
          /\ r.previous_year_production.n = 0 =>
                dashboard_total_bau(r.unique_code) = RZero

\* specific is absolute / production, and 0 for a production of 0.
IsSpecificOf(specific, absolute, production) ==
    IF production.n = 0 THEN specific = RZero
    ELSE RMul(specific, production) = absolute

Larger(a, b) == IF a >= b THEN a ELSE b

\* tracking_years of the two options in the form, from the fields.
FormTrackingYears ==
    Larger(Larger(macc.option1.emission_tracking_period,
                  macc.option2.emission_tracking_period), 1)

\* C13: whenever Calculate MACC completes, tracking_years is the largest of the
\* two emission tracking periods and 1 (so at least 1), the annual CO2 difference
\* is before.co2_reduction - after.co2_reduction, and the stored total CO2
\* difference is the annual difference times tracking_years.
C13_TrackingYearsAndCo2Diff ==
    [][CalculatedMacc =>
        /\ FormTrackingYears >= 1
        /\ MaccOutcome(macc).tracking_period = FormTrackingYears
        /\ MaccOutcome(macc).annual_diff_co2
              = macc.option1.co2_reduction - macc.option2.co2_reduction
        /\ macc'.total_co2_diff
              = (macc.option1.co2_reduction - macc.option2.co2_reduction)
                    * FormTrackingYears]_vars

\* 50 t/yr against 100 t/yr tracked over the longer period of the second option.
C13_Witness ==
    /\ macc.option1 = ScenarioB
    /\ macc.option2 = MacScenario(500, 100, MaxTracking)
    /\ macc.total_co2_diff = (0 - 50) * MaxTracking
    /\ ~macc_error

\* C14: the store holds one record per project identifier; a Save Project that
\* changes the store leaves exactly one record with the session's identifier,
\* carrying the session's values (organization, name, result text, NPVs, MAC,
\* total CO2 difference), and leaves the records of all other identifiers as
\* they were.
C14_SaveKeepsOneRecordPerId ==
    [][npv_projects' # npv_projects =>
        /\ \A r1, r2 \in npv_projects' : r1.id = r2.id => r1 = r2
        /\ \E r \in npv_projects' :
              /\ r.id = macc.project_id
              /\ r.organization = macc.organization
              /\ r.project_name = macc.project_name
              /\ r.result = macc.result
              /\ r.npv1 = macc.calculated_npv1
              /\ r.npv2 = macc.calculated_npv2
              /\ r.mac = macc.calculated_mac
              /\ r.total_co2_diff = macc.total_co2_diff
        /\ {r \in npv_projects' : r.id # macc.project_id}
              = {r \in npv_projects : r.id # macc.project_id}]_vars

\* Two projects in the store, the second one holding the values of the session
\* that saved it.
C14_Witness ==
    /\ macc.project_id = ProjectIds[2]
    /\ \E r1, r2 \in npv_projects :
          /\ r1.id = ProjectIds[1]
          /\ r2.id = ProjectIds[2]
          /\ r2.total_co2_diff = macc.total_co2_diff
          /\ r2.total_co2_diff # r1.total_co2_diff
          /\ r2.total_co2_diff # 0

\* The identifiers of the stored calculations other than the one confirmed for
\* deletion.
KeptIds == {r.id : r \in {x \in calculations : x.unique_code # fuel_delete.code}}

\* C15: once the deletion of a calculation has been confirmed, the store holds
\* neither the calculation nor any materials_baseline, emission_reductions or
\* base_value_details row that belonged to it, and every non-default name that
\* get_materials_from_fuel_energy_db returns is used by a remaining calculation.
C15_DeleteRemovesCalculationAndChildren ==
    fuel_delete.stage = "confirmed" =>
        /\ \A r \in calculations : r.unique_code # fuel_delete.code
        /\ \A m \in materials_baseline : m.calculation_id \in KeptIds
        /\ \A e \in emission_reductions : e.calculation_id \in KeptIds
        /\ \A b \in base_value_details : b.calculation_id \in KeptIds
        /\ \A name \in get_materials_from_fuel_energy_db \ DefaultMaterials :
              \E m \in materials_baseline :
                  m.name = name /\ m.calculation_id \in KeptIds

\* C16: for every pair of scenarios the form accepts (a discount rate of -100 %
\* and zero amounts included), Calculate MACC completes: no exception escapes it
\* and the NPVs and the MAC it stores are numbers.
C16_CalculateMaccCompletes ==
    [][CalculateMacc =>
        /\ ~macc_error'
        /\ ~IsRaised(macc'.calculated_npv1)
        /\ ~IsRaised(macc'.calculated_npv2)
        /\ ~IsRaised(macc'.calculated_mac)]_vars

\* C17: no result depends on what was computed earlier in the session; in
\* particular the baseline specific_net_before and CO2 reduction the actuals
\* tracker compares against are the values computed from the project's current
\* input rows, output rows and AMP.
C17_TrackerBaselineIsCurrent ==
    co2_project.emission_results_calculated # NoBaseline =>
        /\ co2_project.emission_results_calculated[1].sp_net_before
              = calculate_after_values(co2_project).sp_net_before
        /\ co2_project.emission_results_calculated[1].co2_reduction
              = calculate_after_values(co2_project).co2_reduction

\* C18: for every saved project that was calculated, the co2_reduction listed by
\* get_saved_macc_projects is the annual CO2 difference written into the result
\* text: formatting the listed value with thousands separators gives the text of
\* the 'Annual CO2e Difference' line back, for positive, zero and negative values.
C18_AnnualDifferenceRoundTrip ==
    \A r \in npv_projects :
        r.result.annual # <<>> =>
            \A p \in get_saved_macc_projects :
                p.id = r.id => FormatThousands(p.co2_reduction) = r.result.annual

\* C19: the actuals ledger holds at most one row per (project_code, section_type,
\* row_index, year_number) and the AMP ledger at most one row per (project_code,
\* year_number), also after the same material and year were saved twice.
C19_OneLedgerRowPerKey ==
    /\ \A j, k \in 1..Len(project_actuals) :
          (/\ project_actuals[j].project_code = project_actuals[k].project_code
           /\ project_actuals[j].section_type = project_actuals[k].section_type
           /\ project_actuals[j].row_index = project_actuals[k].row_index
           /\ project_actuals[j].year_number = project_actuals[k].year_number)
              => j = k
    /\ \A j, k \in 1..Len(amp_actuals_tracking) :
          (/\ amp_actuals_tracking[j].project_code = amp_actuals_tracking[k].project_code
           /\ amp_actuals_tracking[j].year_number = amp_actuals_tracking[k].year_number)
              => j = k

\* The option with other loan terms and another reinvestment entered.
WithLoanTerms(opt, interest, period, reinvest) ==
    [opt EXCEPT !.capex_loan_interest = interest, !.capex_loan_period = period,
                !.reinvestment = reinvest,
                !.reinvestment_year = IF reinvest THEN 1 ELSE 0,
                !.reinvestment_amount = IF reinvest THEN 100 ELSE 0]

\* C20: for both scenarios in the form (lifetime N >= 1), the cashflow series
\* has N + 1 entries; entry 0 is -investment (plus the salvage value when the
\* year of salvage is 0), the investment being the owned capital for 'Own
\* Investment' and the loan principal otherwise; and the series is the same
\* whatever the loan interest rate, the repayment period and the reinvestment.
C20_CashflowSeriesShape ==
    \A opt \in {macc.option1, macc.option2} :
        \E cf \in {DetailedCashflows(opt)} :
            /\ opt.lifetime >= 1
            /\ Len(cf) = opt.lifetime + 1
            /\ cf[1] = RInt((IF opt.salvage_value > 0 /\ opt.year_of_salvage = 0
                              THEN opt.salvage_value ELSE 0)
                            - (IF opt.capex_type = "Own Investment"
                               THEN opt.capex_own ELSE opt.capex_loan_principal))
            /\ \A interest \in {0, 12}, period \in {0, 5}, reinvest \in BOOLEAN :
                  DetailedCashflows(WithLoanTerms(opt, interest, period, reinvest)) = cf

\* A loan of 800 against owned capital of 1000, calculated: NPV -800.
C20_Witness ==
    /\ macc.option1 = LoanScenario
    /\ DetailedCashflows(macc.option1) = <<RInt(-800), RZero>>
    /\ macc.calculated_npv1 = RInt(-800)
    /\ ~macc_error

\* amount x (1 + rate_pct / 100) ^ (t - 1)
Escalated(amount, rate_pct, t) ==
    RMul(RInt(amount), RPow(RDiv(RInt(100 + rate_pct), RInt(100)), t - 1))

\* What salvage and residual add to entry t of the series of opt.
SalvageAndResidualAt(opt, t) ==
    (IF opt.salvage_value > 0 /\ opt.year_of_salvage <= opt.lifetime
        /\ opt.year_of_salvage = t THEN opt.salvage_value ELSE 0)
        + (IF t = opt.lifetime THEN opt.residual_value ELSE 0)

\* C21: for both scenarios in the form and every year t in 1..N, the cashflow
\* entry less what salvage and residual add to it is benefit(t) - opex_regular(t)
\* - opex_fuel(t), with benefit(t) = annual_benefit x (1 - decline/100)^(t-1) for
\* t <= benefit_duration and 0 afterwards, and each opex escalated by its
\* inflation rate; for a benefit of 300 over one year, opex 100 at 100 %
\* inflation and lifetime 2 the years give 200 and -200.
C21_YearlyCashflowFormula ==
    \A opt \in {macc.option1, macc.option2} :
        \E cf \in {DetailedCashflows(opt)} :
            /\ \A t \in 1..opt.lifetime :
                  RSub(cf[t + 1], RInt(SalvageAndResidualAt(opt, t)))
                      = RSub(RSub(IF t <= opt.benefit_duration
                                  THEN Escalated(opt.annual_benefit,
                                                 0 - opt.benefit_decline_rate, t)
                                  ELSE RZero,
                                  Escalated(opt.opex_regular_costs, opt.inflation_rate, t)),
                             Escalated(opt.opex_fuel_energy_cost,
                                       opt.fuel_energy_inflation, t))
            /\ opt = BenefitScenario(2) =>
                  /\ RSub(cf[2], RInt(200)) = RInt(200)
                  /\ cf[3] = RInt(-200)

\* The benefit scenario over two years, calculated.
C21_Witness ==
    /\ macc.option1 = BenefitScenario(2)
    /\ DetailedCashflows(macc.option1)[3] = RInt(-200)
    /\ ~macc_error
    /\ macc.result.annual # <<>>

\* The option with neither salvage nor residual value.
WithoutSalvageAndResidual(opt) ==
    [opt EXCEPT !.salvage_value = 0, !.residual_value = 0]

\* C22: against the series of the same option without salvage and residual
\* value, the series gains the salvage value at index year_of_salvage, and at no
\* other index, exactly when year_of_salvage <= N and salvage_value > 0, and
\* gains the residual value at the final index N in every case.
C22_SalvageAndResidualPlacement ==
    cashflow_run.done =>
        \E opt \in {cashflow_run.opt} :
            \E plain \in {DetailedCashflows(WithoutSalvageAndResidual(opt))} :
                /\ Len(cashflow_run.cashflows) = Len(plain)
                /\ \A t \in 0..opt.lifetime :
                      RSub(cashflow_run.cashflows[t + 1], plain[t + 1])
                          = RInt((IF opt.salvage_value > 0
                                     /\ opt.year_of_salvage <= opt.lifetime
                                     /\ opt.year_of_salvage = t
                                  THEN opt.salvage_value ELSE 0)
                                 + (IF t = opt.lifetime THEN opt.residual_value ELSE 0))

\* Salvage of 200 in year 1 of 2 and a residual value of 50 at the end.
C22_Witness ==
    /\ cashflow_run.done
    /\ cashflow_run.opt.lifetime = 2
    /\ cashflow_run.opt.salvage_value = 200
    /\ cashflow_run.opt.year_of_salvage = 1
    /\ cashflow_run.opt.residual_value = 50
    /\ cashflow_run.cashflows = <<RInt(-1000), RInt(400), RInt(-50)>>

\* The owned capital or the loan principal, by the capital source.
InvestmentOf(opt) ==
    IF opt.capex_type = "Own Investment" THEN opt.capex_own
    ELSE opt.capex_loan_principal

\* C23 as stated: for a lifetime of 0 the series is the single entry -investment
\* and the NPV is -investment, whatever the salvage, residual, benefit and opex
\* fields hold.
C23_LifetimeZeroOnlyOutflow ==
    (cashflow_run.done /\ cashflow_run.opt.lifetime = 0) =>
        /\ cashflow_run.cashflows = <<RInt(0 - InvestmentOf(cashflow_run.opt))>>
        /\ cashflow_run.npv = RInt(0 - InvestmentOf(cashflow_run.opt))

\* C23 (amended): for a lifetime of 0 the construction does not fail; the series
\* has the single entry -investment + residual_value, plus salvage_value when
\* salvage_value > 0 and year_of_salvage = 0, and the NPV equals that entry at
\* any discount rate, whatever the benefit and opex fields hold.
C23_LifetimeZeroSingleEntry ==
    (cashflow_run.done /\ cashflow_run.opt.lifetime = 0) =>
        \E entry \in {RInt(cashflow_run.opt.residual_value
                            + (IF cashflow_run.opt.salvage_value > 0
                                  /\ cashflow_run.opt.year_of_salvage = 0
                               THEN cashflow_run.opt.salvage_value ELSE 0)
                            - InvestmentOf(cashflow_run.opt))} :
            /\ cashflow_run.cashflows = <<entry>>
            /\ cashflow_run.npv = entry
            /\ ~IsRaised(cashflow_run.npv)

\* Lifetime 0 at -100 %, salvage 200 in year 0 and residual 50: one entry, -750.
C23_Witness ==
    /\ cashflow_run.done
    /\ cashflow_run.opt.lifetime = 0
    /\ cashflow_run.opt.discount_rate = -100
    /\ cashflow_run.opt.salvage_value = 200
    /\ cashflow_run.opt.year_of_salvage = 0
    /\ cashflow_run.opt.residual_value = 50
    /\ cashflow_run.npv = RInt(-750)

\* The quantity the claim divides by: the primary output's absolute quantity
\* (absolute convention) or the AMP (specific convention).
StatedDenominator(p, abs_field, amp) ==
    IF p.calculation_method = "specific" THEN amp
    ELSE Get(p.output_data[1], abs_field, 0)

\* q is net / den, and 0.0 when den is 0; no division failed.
IsGuardedQuotient(q, net, den) ==
    /\ ~IsRaised(q)
    /\ IF den = 0 THEN q = RZero ELSE RMul(q, RInt(den)) = RInt(net)

\* C24: specific_net_before/after is the net emission divided by the primary
\* output's before/after absolute quantity (absolute convention) or by
\* AMP_before/AMP_after (specific convention) and 0.0 when that denominator is
\* 0, in the emission results and in the tracked year (divided by the year's
\* primary output actual or AMP actual); no division fails.
C24_SpecificNetGuardedDivision ==
    /\ IsGuardedQuotient(co2_results.emission.sp_net_before,
                         co2_results.emission.net_before,
                         StatedDenominator(co2_project, "abs_before",
                                           co2_project.amp_before))
    /\ IsGuardedQuotient(co2_results.emission.sp_net_after,
                         co2_results.emission.net_after,
                         StatedDenominator(co2_project, "abs_after",
                                           co2_project.amp_after))
    /\ co2_results.tracking # <<>> =>
           IsGuardedQuotient(co2_results.tracking[1].sp_net,
                             co2_results.tracking[1].net_emission,
                             IF co2_project.calculation_method = "specific"
                             THEN co2_actuals.amp ELSE co2_actuals.output[1])

\* A tracked absolute project whose year has inputs but a primary output of 0:
\* the year's net emission is not 0 and its specific net is 0.0, while the
\* emission results divide by a non-zero quantity.
C24_Witness ==
    /\ co2_project.calculation_method = "absolute"
    /\ co2_results.tracking # <<>>
    /\ co2_actuals.output[1] = 0
    /\ co2_results.tracking[1].net_emission > 0
    /\ co2_results.tracking[1].sp_net = RZero
    /\ co2_results.emission.sp_net_before.n # 0
    /\ co2_results.emission.sp_net_before.d # 0

\* The rows the ledger holds for a project and a year, in stored order.
RowsOf(ledger, code, year) ==
    SelectSeq(ledger, LAMBDA r : r.project_code = code /\ r.year_number = year)

\* The ledger grew by rows of the session project only, and the rows of every
\* other (project, year) than the saved one are what they were.
SavedOnlyOwnYear(before, after) ==
    after # before =>
        /\ Len(after) = Len(before) + 1
        /\ after[Len(after)].project_code = co2_project.project_code
        /\ \A code \in {r.project_code : r \in co2_projects}, year \in 1..MaxTrackedYear :
               (code # after[Len(after)].project_code
                    \/ year # after[Len(after)].year_number)
                   => RowsOf(after, code, year) = RowsOf(before, code, year)

\* The tab of a year: its widgets and what it shows.
TrackingOfYear(year) ==
    IF year = 1 THEN co2_results.tracking ELSE co2_later_years[year].tracking

\* C25: saving an actual or an AMP actual for year y of a project leaves the
\* stored rows of every other year and of every other project as they were, and
\* the result of a year is a function of that year's actual values and of the
\* project with its baseline: a step that changes neither leaves the year's
\* result unchanged, whatever happens to the other years.
C25_TrackedYearsIndependent ==
    [][/\ SavedOnlyOwnYear(project_actuals, project_actuals')
       /\ SavedOnlyOwnYear(amp_actuals_tracking, amp_actuals_tracking')
       /\ co2_projects' = co2_projects
       /\ \A year \in 1..MaxTrackedYear :
              /\ (ActualsOfYear(year)' = ActualsOfYear(year) /\ co2_project' = co2_project)
                     => TrackingOfYear(year)' = TrackingOfYear(year)
              /\ TrackingOfYear(year)' # <<>> =>
                     TrackingOfYear(year)'[1].co2_reduction =
                         RMul(RSub(co2_project'.emission_results_calculated[1].sp_net_before,
                                   TrackingOfYear(year)'[1].sp_net),
                              RInt(IF co2_project'.calculation_method = "specific"
                                   THEN ActualsOfYear(year)'.amp
                                   ELSE ActualsOfYear(year)'.output[1]))]_vars

\* The ledger holds a row of year 1 and a row of year 2 of the session project
\* with different values, and the two years show different CO2 reductions.
C25_Witness ==
    /\ Len(project_actuals) = 2
    /\ project_actuals[1].project_code = co2_project.project_code
    /\ project_actuals[2].project_code = co2_project.project_code
    /\ project_actuals[1].year_number # project_actuals[2].year_number
    /\ project_actuals[1].absolute_value # project_actuals[2].absolute_value
    /\ co2_results.tracking # <<>>
    /\ co2_later_years[2].tracking # <<>>
    /\ co2_results.tracking[1].co2_reduction # co2_later_years[2].tracking[1].co2_reduction

\* The record has the children a save writes with it: a reduction percentage
\* of every scope, and material rows numbered from 0 without a gap.
HasItsChildren(r) ==
    /\ {x.scope : x \in {e \in emission_reductions : e.calculation_id = r.id}} = ScopeSet
    /\ LET rows == {m \in materials_baseline : m.calculation_id = r.id}
       IN {m.row_num : m \in rows} = 0..(Cardinality(rows) - 1)

\* C26: a save that returns False leaves the calculation records, the material
\* rows, the reduction percentages, the baseline overrides and the id counter
\* exactly as they were, and every stored record has its child rows.
C26_FailedSaveChangesNothing ==
    [][/\ fuel_save_result' = "False" =>
              UNCHANGED <<calculations, materials_baseline, emission_reductions,
                          base_value_details, fuel_seq>>
       /\ \A r \in calculations' : HasItsChildren(r)']_vars

\* A save of a changed form under a stored identifier failed: the stored record
\* is not the one the form would have written.
C26_Witness ==
    /\ fuel_save_result = "False"
    /\ \E r \in calculations :
           /\ r.unique_code = calc.unique_code
           /\ r # CalculationRow(r.id, SaveData(calc))
           /\ HasItsChildren(r)

\* The ids of the stored MACC projects.
StoredIds(store) == {r.id : r \in store}

\* C27: a MACC project record leaves the store only on 'Yes, Delete Permanently'
\* with a confirmation pending, and the record that leaves is the entry of the
\* dropdown picked when Delete was pressed; Delete alone and Cancel leave the
\* store unchanged; Cancel and a deletion clear the confirmation; the session's
\* project is reset exactly when it is the one deleted.
C27_DeleteOnlyOnConfirmation ==
    [][/\ StoredIds(npv_projects') # StoredIds(npv_projects) \cup StoredIds(npv_projects') =>
              /\ delete_confirmation # ""
              /\ StoredIds(npv_projects) \ StoredIds(npv_projects') = {delete_picked}
              /\ delete_confirmation' = ""
              /\ macc' = IF macc.project_id = delete_picked THEN NewMacc ELSE macc
       /\ (delete_confirmation = "" /\ delete_confirmation' # "") =>
              npv_projects' = npv_projects
       /\ (delete_confirmation # "" /\ delete_confirmation' = ""
               /\ StoredIds(npv_projects') = StoredIds(npv_projects)) =>
              /\ npv_projects' = npv_projects
              /\ macc' = macc]_vars

\* C28: confirming a Save or an Update of a strategy dashboard leaves every
\* stored dashboard with another id in the store with its name and contents
\* unchanged, also when the name entered is the name of another dashboard.
C28_SaveKeepsOtherDashboards ==
    [][strategy_portfolios' # strategy_portfolios =>
          \A r \in strategy_portfolios :
              r.id # strategy'.loaded_dashboard_id => r \in strategy_portfolios']_vars

\* A Save that is turned down: a required field is blank or the name is taken.
RejectedSave ==
    /\ SaveCo2Project
    /\ co2_project.project_name = "" \/ NameTaken(BeforeInsert(co2_project))

\* C29: a rejected save of a CO2 project (blank required field, or the name of
\* another stored project) leaves the store unchanged and the session project
\* with the project_code and the is_loaded_from_db flag it had.
C29_RejectedSaveChangesNothing ==
    [][RejectedSave =>
          /\ co2_projects' = co2_projects
          /\ co2_project'.project_code = co2_project.project_code
          /\ co2_project'.is_loaded_from_db = co2_project.is_loaded_from_db]_vars

\* The stored calculation methods of the project code.
PersistedMethods(store, code) ==
    {r.calculation_method : r \in {x \in store : x.project_code = code}}

\* C30: once the session project is saved or loaded, its calculation_method and
\* the persisted calculation_method of its project code keep their value over
\* every step that leaves this project in the session (edits and saves), and
\* the two agree.
C30_MethodLockedOnceSaved ==
    [][/\ (/\ co2_project.is_loaded_from_db
           /\ co2_project'.is_loaded_from_db
           /\ co2_project'.project_code = co2_project.project_code) =>
              /\ co2_project'.calculation_method = co2_project.calculation_method
              /\ PersistedMethods(co2_projects', co2_project.project_code)
                     = PersistedMethods(co2_projects, co2_project.project_code)
       /\ co2_project'.is_loaded_from_db =>
              PersistedMethods(co2_projects', co2_project'.project_code)
                  = {co2_project'.calculation_method}]_vars

\* A saved specific project was edited (a second output row) and saved again.
C30_Witness ==
    /\ co2_project.is_loaded_from_db
    /\ co2_project.calculation_method = "specific"
    /\ Len(co2_project.output_data) = 2
    /\ Get(co2_project.output_data[1], "ef", 0) = 0
    /\ PersistedMethods(co2_projects, co2_project.project_code) = {"specific"}
    /\ \A r \in co2_projects : Len(r.output_data) = 2

====
